---- MODULE Spec2Model ----
(***************************************************************************)
(* A model of claude-mm-tool's response cache (claude_mm/cache.py) and of  *)
(* the request path that uses it (claude_mm/api.py).                        *)
(*                                                                         *)
(* Python values: a str is PyStr(s) with s a string, None is PyNone.       *)
(* A file of the cache directory is a record: absent, garbage            *)
(* (json.load rejects it) or json (a parsed object: a function from field  *)
(* names to values, so that a missing field is a missing domain element).  *)
(* Time is counted in ticks, TicksPerHour of them to the hour.             *)
(***************************************************************************)
EXTENDS Integers, Sequences, FiniteSets, TLC

VARIABLES
    clock,          \* datetime.now(), in ticks
    files,          \* cache directory: fingerprint -> content of <fingerprint>.json
    last,           \* the most recent call: its name, arguments and outcome
    providerCalls,  \* number of provider.complete / complete_async calls made
    usageLog,       \* the usage log: sequence of records appended by log_api_call
    pair,           \* two requests whose fingerprints are compared
    digests,        \* the fingerprints get_cache_key gave the two requests
    writers,        \* concurrent cache_response calls: position and locals
    readers,        \* concurrent get_cached_response calls: position and locals
    tmps,           \* the temporary file of each concurrent cache_response call
    lastRename,     \* per fingerprint: the call whose os.replace came last
    fanout,         \* a multi-model review in progress: its workers and results
    runs,           \* one request made on the thread path and on the task path
    retry,          \* a call wrapped by retry_with_backoff: its loop's state
    pricingFile,    \* content of the pricing override file (pricing.yaml)
    pricingLast,    \* the most recent call of the pricing store and its outcome
    loggers         \* concurrent log_api_call calls: position and locals

cacheVars == <<clock, files, last>>
apiVars == <<providerCalls, usageLog>>
keyVars == <<pair, digests>>
concVars == <<writers, readers, tmps, lastRename>>
extVars == <<fanout, runs, retry, pricingFile, pricingLast, loggers>>

vars == <<cacheVars, apiVars, keyVars, concVars, extVars>>

----------------------------------------------------------------------------
(* Bounds of the model *)

TicksPerHour == 2
MaxClock == 3
MaxTtl == 1
MaxCalls == 2
MaxStrLen == 1
NumWriters == 2
NumReaders == 1

----------------------------------------------------------------------------
(* Python values *)

PyNone == [type |-> "NoneType"]
PyStr(s) == [type |-> "str", s |-> s]
PyInt(n) == [type |-> "int", n |-> n]

\* bool(v) of a value that is a str or None: "if cached:", "system_prompt or ''"
Truthy(v) == v.type = "str" /\ v.s # ""

\* system_prompt or ''
OrEmpty(v) == IF Truthy(v) THEN v.s ELSE ""

\* datetime.isoformat() and datetime.fromisoformat()
IsoFormat(t) == <<"iso", t>>
FromIsoFormat(x) == x[2]

\* timedelta(hours=h), in ticks
Hours(h) == h * TicksPerHour

----------------------------------------------------------------------------
(* Files of the cache directory *)

AbsentFile == [kind |-> "absent"]
GarbageFile == [kind |-> "garbage"]

\* json.dump(obj, f) of a whole object, and json.load(f)
JsonDump(obj) == [kind |-> "json", obj |-> obj]
JsonParses(content) == content.kind = "json"
JsonLoad(content) == content.obj

\* hashlib.sha256(content.encode()).hexdigest(): injective on its argument
Sha256(content) == <<"sha256", content>>

get_cache_key(model, prompt, system_prompt) ==
    Sha256(model \o ":" \o OrEmpty(system_prompt) \o ":" \o prompt)

----------------------------------------------------------------------------
(* The requests made of the cache *)

ModelNames == {"gpt", "gemini"}
Prompts == {"diff"}
SystemPrompts == {PyNone, PyStr("")}
Responses == {PyStr(""), PyStr("r")}
TtlHours == (0 - 1)..MaxTtl

KeySpace ==
    {get_cache_key(m, p, sp) : m \in ModelNames, p \in Prompts, sp \in SystemPrompts}

\* What the cache directory may hold when the program starts: nothing, or a
\* file that was damaged or hand-written outside the program.
ForeignFiles ==
    { AbsentFile, GarbageFile,
      JsonDump([model |-> "gpt", response |-> PyStr("r")]),
      JsonDump([timestamp |-> IsoFormat(0), model |-> "gpt"]) }

----------------------------------------------------------------------------
(* get_cache_dir: mkdir(parents=True, exist_ok=True) raises when the        *)
(* directory cannot be created (a path component is a file, or is not       *)
(* writable).                                                               *)

get_cache_dir_raises(fault) == fault = "mkdir"

----------------------------------------------------------------------------
(* get_cached_response *)

LookupFaults == {"none", "mkdir", "open", "unlink"}

\* (mutant of Expired: an entry whose age equals the TTL counts as expired)
Expired_AtTtl(now, cached_at, ttl_hours) == now - cached_at >= Hours(ttl_hours)

\* datetime.now() - cached_at > timedelta(hours=ttl_hours)
Expired(now, cached_at, ttl_hours) == now - cached_at > Hours(ttl_hours)

\* "except Exception: return None", and "return None" of a missing file
Miss(why) == [raised |-> FALSE, result |-> PyNone, unlink |-> FALSE, why |-> why]

\* (mutant of Evict: the expired entry is reported absent but not unlinked)
Evict_KeepsFile(fault) ==
    [raised |-> FALSE, result |-> PyNone, unlink |-> FALSE, why |-> "expired"]

\* cache_file.unlink() of an expired entry, which may itself raise
Evict(fault) ==
    [raised |-> FALSE, result |-> PyNone, unlink |-> fault # "unlink",
     why |-> IF fault = "unlink" THEN "undeletable" ELSE "expired"]

\* The outcome of get_cached_response on the content found at the entry's
\* path: whether the call raises, what it returns, whether it unlinks the file.
lookup(content, now, ttl_hours, fault) ==
    IF get_cache_dir_raises(fault)
    THEN [raised |-> TRUE, result |-> PyNone, unlink |-> FALSE, why |-> "mkdir"]
    ELSE IF content.kind = "absent" THEN Miss("absent")
    ELSE IF fault = "open" THEN Miss("unreadable")
    ELSE IF ~JsonParses(content) THEN Miss("unparseable")
    ELSE LET cache_data == JsonLoad(content) IN
         IF "timestamp" \notin DOMAIN cache_data THEN Miss("nofield")
         ELSE IF Expired(now, FromIsoFormat(cache_data["timestamp"]), ttl_hours)
              THEN Evict(fault)
         ELSE IF "response" \notin DOMAIN cache_data THEN Miss("nofield")
         ELSE [raised |-> FALSE, result |-> cache_data["response"],
               unlink |-> FALSE, why |-> "hit"]

\* The record the program last stored and has not looked at since
JustStored(cache_key) ==
    last.op = "cache_response" /\ last.effect = "renamed" /\ last.key = cache_key

get_cached_response(model, prompt, system_prompt, ttl_hours, fault) ==
    LET cache_key == get_cache_key(model, prompt, system_prompt)
        out == lookup(files[cache_key], clock, ttl_hours, fault)
    IN  /\ files' = IF out.unlink THEN [files EXCEPT ![cache_key] = AbsentFile]
                    ELSE files
        /\ last' = [op |-> "get_cached_response", key |-> cache_key,
                    ttl_hours |-> ttl_hours, why |-> out.why,
                    raised |-> out.raised, result |-> out.result,
                    after_store |-> JustStored(cache_key)]
        /\ UNCHANGED <<clock, apiVars, keyVars, concVars, extVars>>

----------------------------------------------------------------------------
(* cache_response *)

StoreFaults == {"none", "mkdir", "create", "dump", "close", "replace"}

\* (mutant of StoreEffect: the entry is never written)
StoreEffect_Skipped(fault) == IF fault = "mkdir" THEN "raised" ELSE "nothing"

\* What a call does to the cache directory, by the step that fails
StoreEffect(fault) ==
    CASE fault = "none" -> "renamed"      \* lines 91-101 ran to the end
      [] fault = "mkdir" -> "raised"      \* line 78, outside the try
      [] fault = "create" -> "nothing"    \* NamedTemporaryFile raised
      [] fault = "dump" -> "leaked"       \* json.dump raised: tmp_path unset
      [] OTHER -> "cleaned"               \* close or os.replace raised: unlink

cache_response(model, prompt, response, system_prompt, fault) ==
    LET cache_key == get_cache_key(model, prompt, system_prompt)
        cache_data == [timestamp |-> IsoFormat(clock), model |-> model,
                       response |-> response]
        effect == StoreEffect(fault)
    IN  /\ files' = IF effect = "renamed"
                    THEN [files EXCEPT ![cache_key] = JsonDump(cache_data)]
                    ELSE files
        /\ last' = [op |-> "cache_response", key |-> cache_key,
                    response |-> response, effect |-> effect]
        /\ UNCHANGED <<clock, apiVars, keyVars, concVars, extVars>>

----------------------------------------------------------------------------
(* clear_cache *)

PurgeFaults == {"none", "mkdir"}
Durations == {PyNone} \cup {PyInt(h) : h \in 0..MaxTtl}

\* cache_dir.glob("*.json"): the entries present (a *.tmp file does not match)
Listing(fs) == {k \in DOMAIN fs : fs[k].kind # "absent"}

\* (mutant of KeptByCutoff: the comparison the wrong way round)
KeptByCutoff_Flipped(cached_at, cutoff) == cached_at < cutoff

\* "if cached_at > cutoff: continue"
KeptByCutoff(cached_at, cutoff) == cached_at > cutoff

\* The loop of clear_cache over the listing: each file is parsed (only when a
\* cutoff is given), compared with the cutoff and unlinked; an exception on
\* one file skips that file.  unreadable: files whose open() raises;
\* undeletable: files whose unlink() raises.
RECURSIVE clear_loop(_, _, _, _, _, _)
clear_loop(todo, fs, removed, cutoff, unreadable, undeletable) ==
    IF todo = {} THEN [files |-> fs, removed |-> removed]
    ELSE LET cache_file == CHOOSE k \in todo : TRUE
             content == fs[cache_file]
             skip == clear_loop(todo \ {cache_file}, fs, removed,
                                cutoff, unreadable, undeletable)
             raises ==
                 /\ cutoff.type # "NoneType"
                 /\ \/ cache_file \in unreadable
                    \/ ~JsonParses(content)
                    \/ "timestamp" \notin DOMAIN JsonLoad(content)
         IN  IF raises THEN skip
             ELSE IF /\ cutoff.type # "NoneType"
                     /\ KeptByCutoff(FromIsoFormat(JsonLoad(content)["timestamp"]),
                                     cutoff.n)
                  THEN skip
             ELSE IF cache_file \in undeletable THEN skip
             ELSE clear_loop(todo \ {cache_file},
                             [fs EXCEPT ![cache_file] = AbsentFile], removed + 1,
                             cutoff, unreadable, undeletable)

clear_cache(older_than_hours, unreadable, undeletable, fault) ==
    LET cutoff == IF older_than_hours.type = "NoneType" THEN PyNone
                  ELSE PyInt(clock - Hours(older_than_hours.n))
        out == clear_loop(Listing(files), files, 0, cutoff, unreadable, undeletable)
    IN  /\ files' = IF get_cache_dir_raises(fault) THEN files ELSE out.files
        /\ last' = [op |-> "clear_cache", older_than_hours |-> older_than_hours,
                    raised |-> get_cache_dir_raises(fault),
                    result |-> IF get_cache_dir_raises(fault) THEN 0 ELSE out.removed,
                    listed |-> Cardinality(Listing(files))]
        /\ UNCHANGED <<clock, apiVars, keyVars, concVars, extVars>>

----------------------------------------------------------------------------
(* get_cache_stats *)

\* cache_file.stat().st_size, in bytes: any positive number
FileSize(content) ==
    IF JsonParses(content) THEN 20 * Cardinality(DOMAIN JsonLoad(content)) ELSE 1

\* round(total_size / (1024 * 1024), 2), in hundredths of a megabyte
RoundMb(total_size) == (total_size * 100 + 512 * 1024) \div (1024 * 1024)

\* The loop of get_cache_stats: the file is counted, then its size is added,
\* then it is parsed and its timestamp compared; an exception at any of these
\* steps ends the work on that file and keeps what was added before.
\* unstatable: files whose stat() raises; unreadable: files whose open() raises.
RECURSIVE stats_loop(_, _, _, _, _)
stats_loop(todo, fs, acc, unstatable, unreadable) ==
    IF todo = {} THEN acc
    ELSE LET cache_file == CHOOSE k \in todo : TRUE
             content == fs[cache_file]
             rest == todo \ {cache_file}
             counted == [acc EXCEPT !.total_files = @ + 1]
             sized == [counted EXCEPT !.total_size = @ + FileSize(content)]
             cached_at == FromIsoFormat(JsonLoad(content)["timestamp"])
             dated ==
                 [sized EXCEPT
                    !.oldest = IF @.type = "NoneType" \/ cached_at < @.n
                               THEN PyInt(cached_at) ELSE @,
                    !.newest = IF @.type = "NoneType" \/ cached_at > @.n
                               THEN PyInt(cached_at) ELSE @]
         IN  IF cache_file \in unstatable
             THEN stats_loop(rest, fs, counted, unstatable, unreadable)
             ELSE IF \/ cache_file \in unreadable
                     \/ ~JsonParses(content)
                     \/ "timestamp" \notin DOMAIN JsonLoad(content)
                  THEN stats_loop(rest, fs, sized, unstatable, unreadable)
             ELSE stats_loop(rest, fs, dated, unstatable, unreadable)

get_cache_stats(unstatable, unreadable, fault) ==
    LET acc == stats_loop(Listing(files), files,
                          [total_files |-> 0, total_size |-> 0,
                           oldest |-> PyNone, newest |-> PyNone],
                          unstatable, unreadable)
        stats == [total_files |-> acc.total_files,
                  total_size |-> acc.total_size,
                  total_size_mb |-> RoundMb(acc.total_size),
                  oldest |-> IF acc.oldest.type = "NoneType" THEN PyNone
                             ELSE PyStr(IsoFormat(acc.oldest.n)),
                  newest |-> IF acc.newest.type = "NoneType" THEN PyNone
                             ELSE PyStr(IsoFormat(acc.newest.n))]
    IN  /\ last' = [op |-> "get_cache_stats",
                    raised |-> get_cache_dir_raises(fault),
                    result |-> IF get_cache_dir_raises(fault) THEN PyNone ELSE stats]
        /\ UNCHANGED <<clock, files, apiVars, keyVars, concVars, extVars>>

----------------------------------------------------------------------------
(* Time *)

Tick ==
    /\ clock < MaxClock
    /\ clock' = clock + 1
    /\ UNCHANGED <<files, last, apiVars, keyVars, concVars, extVars>>

----------------------------------------------------------------------------
(* The cache used by one caller at a time: stores and lookups *)

\* The state of the parts of the program a specification leaves alone: of
\* the variables named, each has the value it has before any call
Idle(xs) ==
    /\ IF "providerCalls" \in xs THEN providerCalls = 0 ELSE TRUE
    /\ IF "usageLog" \in xs THEN usageLog = <<>> ELSE TRUE
    /\ IF "pair" \in xs THEN pair = <<>> /\ digests = <<>> ELSE TRUE
    /\ IF "writers" \in xs
       THEN /\ writers = <<>>
            /\ readers = <<>>
            /\ tmps = <<>>
            /\ lastRename = [k \in KeySpace |-> 0]
       ELSE TRUE
    /\ IF "fanout" \in xs THEN fanout = <<>> ELSE TRUE
    /\ IF "runs" \in xs THEN runs = <<>> ELSE TRUE
    /\ IF "retry" \in xs THEN retry = <<>> ELSE TRUE
    /\ IF "pricingFile" \in xs THEN pricingFile = <<>> ELSE TRUE
    /\ IF "pricingLast" \in xs THEN pricingLast = <<>> ELSE TRUE
    /\ IF "loggers" \in xs THEN loggers = <<>> ELSE TRUE

Init ==
    /\ clock = 0
    /\ files \in [KeySpace -> ForeignFiles]
    /\ last = [op |-> "init"]
    /\ Idle({"providerCalls", "usageLog", "pair", "writers",
             "fanout", "runs", "retry", "pricingFile", "pricingLast", "loggers"})

Next ==
    \/ Tick
    \/ \E m \in ModelNames, p \in Prompts, sp \in SystemPrompts,
          ttl \in TtlHours, f \in LookupFaults :
           get_cached_response(m, p, sp, ttl, f)
    \/ \E m \in ModelNames, p \in Prompts, sp \in SystemPrompts,
          r \in Responses, f \in StoreFaults :
           cache_response(m, p, r, sp, f)

Spec == Init /\ [][Next]_vars

----------------------------------------------------------------------------
(* Claims about stores and lookups, checked under Spec *)

\* A complete entry, as cache_response writes it
IsEntry(content) ==
    JsonParses(content) /\ DOMAIN JsonLoad(content) = {"timestamp", "model", "response"}

StoredAt(content) == FromIsoFormat(JsonLoad(content)["timestamp"])

\* C1, as stated: a store that wrote its entry, followed by a lookup of the
\* same request with any ttl_hours >= 0 and no call between the two (the clock
\* has advanced by at most one tick), returns exactly the stored response.
C1_RoundTripAnyTtl ==
    [][\A m \in ModelNames, p \in Prompts, sp \in SystemPrompts, ttl \in 0..MaxTtl :
        LET k == get_cache_key(m, p, sp) IN
        ( /\ JustStored(k)
          /\ clock - StoredAt(files[k]) <= 1
          /\ get_cached_response(m, p, sp, ttl, "none") )
        => last'.result = last.response]_vars

\* C1, amended: a store that wrote its entry, followed by a lookup of the same
\* request with no call between the two, returns exactly the stored response
\* and keeps the entry whenever the time elapsed since the store does not
\* exceed ttl_hours (for ttl_hours = 0: only when the clock has not moved).
C1_RoundTripWithinTtl ==
    [][last'.op = "get_cached_response" =>
       \A m \in ModelNames, p \in Prompts, sp \in SystemPrompts, ttl \in 0..MaxTtl :
        LET k == get_cache_key(m, p, sp) IN
        ( /\ JustStored(k)
          /\ clock - StoredAt(files[k]) <= Hours(ttl)
          /\ get_cached_response(m, p, sp, ttl, "none") )
        => /\ last'.result = last.response
           /\ files' = files]_vars

\* A lookup with ttl_hours = 0 right after a store returned the stored text.
C1_Witness ==
    /\ last.op = "get_cached_response"
    /\ last.after_store
    /\ last.ttl_hours = 0
    /\ last.result = PyStr("r")

\* C2: a lookup of a complete entry stored at T that reads the clock after
\* T + ttl_hours returns None and removes the entry's file; one that reads the
\* clock before T + ttl_hours returns the stored response and leaves the entry.
C2_TtlBoundary ==
    [][last'.op = "get_cached_response" /\ ~last'.raised =>
       \A m \in ModelNames, p \in Prompts, sp \in SystemPrompts,
          ttl \in {last'.ttl_hours} :
        LET k == get_cache_key(m, p, sp)
            entry == files[k]
        IN
        (IsEntry(entry) /\ get_cached_response(m, p, sp, ttl, "none"))
        => /\ clock > StoredAt(entry) + Hours(ttl)
                => last'.result = PyNone /\ files'[k] = AbsentFile
           /\ clock < StoredAt(entry) + Hours(ttl)
                => last'.result = JsonLoad(entry)["response"] /\ files' = files]_vars

\* An entry looked up with a TTL of one hour was found expired and removed.
C2_Witness ==
    /\ last.op = "get_cached_response"
    /\ last.ttl_hours = 1
    /\ last.why = "expired"
    /\ files[last.key] = AbsentFile

\* C5: cache_response never raises, and a call that does not write its entry
\* leaves the entry stored before for the same fingerprint as it was.
C5_StoreNeverRaises ==
    [][\A m \in ModelNames, p \in Prompts, sp \in SystemPrompts,
          r \in Responses, f \in StoreFaults :
        cache_response(m, p, r, sp, f)
        => /\ last'.effect # "raised"
           /\ f # "none" => files' = files]_vars

\* C6: get_cached_response never raises, and returns None whenever the entry
\* is missing, unparseable, lacks a field, or cannot be read or deleted.
C6_LookupNeverRaises ==
    [][\A m \in ModelNames, p \in Prompts, sp \in SystemPrompts,
          ttl \in TtlHours, f \in LookupFaults :
        get_cached_response(m, p, sp, ttl, f)
        => /\ ~last'.raised
           /\ last'.why # "hit" => last'.result = PyNone]_vars

----------------------------------------------------------------------------
(* The cache used by one caller at a time: stores, purges and statistics *)

\* The files on which a call's file operations fail: any, when the call gets
\* as far as its loop
FailingFiles(fault) == IF get_cache_dir_raises(fault) THEN {{}} ELSE SUBSET KeySpace

NextPurge ==
    \/ Tick
    \/ \E m \in ModelNames, p \in Prompts, sp \in SystemPrompts, r \in Responses :
           cache_response(m, p, r, sp, "none")
    \/ \E h \in Durations, f \in PurgeFaults :
           \E unreadable \in FailingFiles(f), undeletable \in FailingFiles(f) :
               clear_cache(h, unreadable, undeletable, f)
    \/ \E f \in PurgeFaults :
           \E unstatable \in FailingFiles(f), unreadable \in FailingFiles(f) :
               get_cache_stats(unstatable, unreadable, f)

SpecPurge == Init /\ [][NextPurge]_vars

----------------------------------------------------------------------------
(* Claims about purges and statistics, checked under SpecPurge *)

\* A file that parses and carries a timestamp
Dated(content) == JsonParses(content) /\ "timestamp" \in DOMAIN JsonLoad(content)

Age(content) == clock - FromIsoFormat(JsonLoad(content)["timestamp"])

RECURSIVE SumSize(_, _)
SumSize(fs, S) ==
    IF S = {} THEN 0
    ELSE LET k == CHOOSE x \in S : TRUE IN FileSize(fs[k]) + SumSize(fs, S \ {k})

\* C8: get_cache_stats changes no entry, and its count, total size, oldest and
\* newest timestamp are those of the readable entries alone: a file that
\* cannot be read or parsed contributes to none of them.
C8_StatsSkipUnreadable ==
    [][\A unstatable \in SUBSET KeySpace, unreadable \in SUBSET KeySpace :
        get_cache_stats(unstatable, unreadable, "none")
        => LET good == {k \in Listing(files) :
                           k \notin unstatable \cup unreadable /\ Dated(files[k])}
               stamps == {FromIsoFormat(JsonLoad(files[k])["timestamp"]) : k \in good}
           IN  /\ files' = files
               /\ last'.result.total_files = Cardinality(good)
               /\ last'.result.total_size = SumSize(files, good)
               /\ good = {} => last'.result.oldest = PyNone
                               /\ last'.result.newest = PyNone
               /\ good # {} =>
                    /\ last'.result.oldest =
                         PyStr(IsoFormat(CHOOSE t \in stamps : \A u \in stamps : t <= u))
                    /\ last'.result.newest =
                         PyStr(IsoFormat(CHOOSE t \in stamps : \A u \in stamps : t >= u))]_vars

----------------------------------------------------------------------------
(* get_cache_key as a function of its arguments *)

Alphabet == {"a", ":"}

\* The strings of at most n characters
RECURSIVE Strings(_)
Strings(n) ==
    IF n = 0 THEN {""}
    ELSE Strings(n - 1) \cup {s \o c : s \in Strings(n - 1), c \in Alphabet}

Requests ==
    [model : ModelNames,
     system_prompt : {PyNone} \cup {PyStr(s) : s \in Strings(MaxStrLen)},
     prompt : Strings(MaxStrLen)]

Fingerprint(t1, t2) ==
    /\ pair' = <<t1, t2>>
    /\ digests' = <<get_cache_key(t1.model, t1.prompt, t1.system_prompt),
                    get_cache_key(t2.model, t2.prompt, t2.system_prompt)>>
    /\ UNCHANGED <<cacheVars, apiVars, concVars, extVars>>

InitKey ==
    /\ clock = 0
    /\ files = [k \in KeySpace |-> AbsentFile]
    /\ last = [op |-> "init"]
    /\ Idle({"providerCalls", "usageLog", "pair", "writers",
             "fanout", "runs", "retry", "pricingFile", "pricingLast", "loggers"})

NextKey == \E t1 \in Requests, t2 \in Requests : Fingerprint(t1, t2)

SpecKey == InitKey /\ [][NextKey]_vars

\* The triple a fingerprint is a function of: (model, system prompt or empty,
\* prompt)
Triple(t) == <<t.model, OrEmpty(t.system_prompt), t.prompt>>

\* C9: two requests get the same fingerprint exactly when their triples
\* (model, system prompt or empty, prompt) are equal.
C9_KeyInjective ==
    pair # <<>> => (digests[1] = digests[2] <=> Triple(pair[1]) = Triple(pair[2]))

----------------------------------------------------------------------------
(* normalize_model_name (claude_mm/models.py) *)

OPENAI_MODELS ==
    ("gpt-5.2-chat-latest" :> "gpt-5.2-chat-latest") @@ ("gpt-5.2" :> "gpt-5.2") @@
    ("gpt-5.2-pro" :> "gpt-5.2-pro") @@ ("gpt-4o" :> "gpt-4o") @@ ("gpt-4" :> "gpt-4")

OPENAI_ALIASES ==
    ("gpt" :> "gpt-5.2") @@ ("gpt-5" :> "gpt-5.2") @@
    ("gpt-instant" :> "gpt-5.2-chat-latest") @@
    ("gpt-5.2-instant" :> "gpt-5.2-chat-latest")

GEMINI_MODELS ==
    ("gemini-3-flash-preview" :> "gemini-3-flash-preview") @@
    ("gemini-2.0-flash-exp" :> "gemini-2.0-flash-exp") @@ ("gemini-pro" :> "gemini-pro")

GEMINI_ALIASES == ("gemini" :> "gemini-3-flash-preview")

CLAUDE_MODELS ==
    ("claude-sonnet-4-5-20250929" :> "claude-sonnet-4-5-20250929") @@
    ("claude-3-5-sonnet-20241022" :> "claude-3-5-sonnet-20241022") @@
    ("claude-3-opus-20240229" :> "claude-3-opus-20240229") @@
    ("claude-3-haiku-20240307" :> "claude-3-haiku-20240307")

CLAUDE_ALIASES == ("claude" :> "claude-sonnet-4-5-20250929")

Normalized(provider, model_id) ==
    [raised |-> FALSE, provider |-> provider, model_id |-> model_id]

normalize_model_name(model) ==
    IF model \in DOMAIN OPENAI_MODELS THEN Normalized("openai", OPENAI_MODELS[model])
    ELSE IF model \in DOMAIN OPENAI_ALIASES
         THEN Normalized("openai", OPENAI_MODELS[OPENAI_ALIASES[model]])
    ELSE IF model \in DOMAIN GEMINI_MODELS THEN Normalized("google", GEMINI_MODELS[model])
    ELSE IF model \in DOMAIN GEMINI_ALIASES
         THEN Normalized("google", GEMINI_MODELS[GEMINI_ALIASES[model]])
    ELSE IF model \in DOMAIN CLAUDE_MODELS
         THEN Normalized("anthropic", CLAUDE_MODELS[model])
    ELSE IF model \in DOMAIN CLAUDE_ALIASES
         THEN Normalized("anthropic", CLAUDE_MODELS[CLAUDE_ALIASES[model]])
    ELSE [raised |-> TRUE, provider |-> "", model_id |-> ""]

----------------------------------------------------------------------------
(* _review_single and _review_single_async (claude_mm/api.py) *)

\* What provider.complete / complete_async returns when it does not raise: a
\* ProviderResponse for the model asked, whose text may be empty
ProviderResponse(text, model_id) ==
    [type |-> "response", text |-> text, model |-> model_id,
     input_tokens |-> 3, output_tokens |-> 2, cost |-> 1, cached |-> FALSE]

\* ReviewResult(ProviderResponse(text=cached, model=model, input_tokens=0,
\*              output_tokens=0, cost=Decimal("0"), cached=True), cached=True)
CachedResult(cached, model) ==
    [text |-> cached, model |-> model, input_tokens |-> 0, output_tokens |-> 0,
     cost |-> 0, cached |-> TRUE]

\* ReviewResult(response, cached=False)
FreshResult(response) ==
    [text |-> response.text, model |-> response.model,
     input_tokens |-> response.input_tokens,
     output_tokens |-> response.output_tokens,
     cost |-> response.cost, cached |-> FALSE]

\* The record log_api_call appends to the usage log
UsageRecord(model_id, response) ==
    [model |-> model_id, operation |-> "review",
     input_tokens |-> response.input_tokens,
     output_tokens |-> response.output_tokens, cost |-> response.cost]

\* The fault a call meets, if any: in its lookup, in the provider call, in
\* writing the usage log (which log_api_call swallows) or in its store
ReviewFaults ==
    {[at |-> "none", fault |-> "none"], [at |-> "provider", fault |-> "error"],
     [at |-> "log", fault |-> "write"]}
    \cup {[at |-> "lookup", fault |-> f] : f \in LookupFaults \ {"none"}}
    \cup {[at |-> "store", fault |-> f] : f \in StoreFaults \ {"none"}}

NoFault == [at |-> "none", fault |-> "none"]

FaultAt(step, fault) == IF fault.at = step THEN fault.fault ELSE "none"

\* The body shared by _review_single and _review_single_async, from the
\* outcome of its lookup (look) and of normalize_model_name (norm): whether the
\* provider is called, the cache directory and the usage log the call leaves,
\* whether it raises, what it returns, and the calls it makes in the order
\* of the code (steps).  text is the text the provider returns when it is
\* called and does not fail.
review_after_lookup(cache_key, look, norm, model, use_cache, text, fault) ==
    LET looked == IF look.unlink THEN [files EXCEPT ![cache_key] = AbsentFile]
                  ELSE files
        hit == use_cache /\ ~look.raised /\ Truthy(look.result)
        called == ~look.raised /\ ~hit /\ ~norm.raised
        answered == called /\ fault.at # "provider"
        response == ProviderResponse(text, norm.model_id)
        effect == IF answered /\ use_cache
                  THEN StoreEffect(FaultAt("store", fault)) ELSE "unused"
        cache_data == [timestamp |-> IsoFormat(clock), model |-> model,
                       response |-> response.text]
        raised == look.raised \/ (~hit /\ ~answered) \/ effect = "raised"
        steps == (IF use_cache THEN <<"get_cached_response">> ELSE <<>>)
                 \o (IF called THEN <<"complete">> ELSE <<>>)
                 \o (IF answered THEN <<"log_api_call">> ELSE <<>>)
                 \o (IF answered /\ use_cache THEN <<"cache_response">> ELSE <<>>)
    IN  [called |-> called,
         steps |-> steps,
         files |-> IF effect = "renamed"
                   THEN [looked EXCEPT ![cache_key] = JsonDump(cache_data)]
                   ELSE looked,
         usageLog |-> IF answered /\ fault.at # "log"
                      THEN Append(usageLog, UsageRecord(norm.model_id, response))
                      ELSE usageLog,
         raised |-> raised,
         result |-> IF hit THEN CachedResult(look.result, model)
                    ELSE IF raised THEN PyNone
                    ELSE FreshResult(response)]

\* The body with its lookup and its normalisation, each evaluated once
review_single(prompt, model, system_prompt, use_cache, cache_ttl, text, fault) ==
    CHOOSE out \in
        {review_after_lookup(k, look, norm, model, use_cache, text, fault) :
            k \in {get_cache_key(model, prompt, system_prompt)},
            norm \in {normalize_model_name(model)},
            look \in {IF use_cache
                      THEN lookup(files[get_cache_key(model, prompt, system_prompt)],
                                  clock, cache_ttl, FaultAt("lookup", fault))
                      ELSE Miss("unused")}} : TRUE

_review_single(prompt, model, system_prompt, use_cache, cache_ttl, text, fault) ==
    \E out \in {review_single(prompt, model, system_prompt, use_cache, cache_ttl,
                              text, fault)} :
        /\ out.called => providerCalls < MaxCalls
        /\ files' = out.files
        /\ providerCalls' = IF out.called THEN providerCalls + 1 ELSE providerCalls
        /\ usageLog' = out.usageLog
        /\ last' = [op |-> "_review_single", raised |-> out.raised,
                    result |-> out.result, steps |-> out.steps]
        /\ UNCHANGED <<clock, keyVars, concVars, extVars>>

_review_single_async(prompt, model, system_prompt, use_cache, cache_ttl, text, fault) ==
    \E out \in {review_single(prompt, model, system_prompt, use_cache, cache_ttl,
                              text, fault)} :
        /\ out.called => providerCalls < MaxCalls
        /\ files' = out.files
        /\ providerCalls' = IF out.called THEN providerCalls + 1 ELSE providerCalls
        /\ usageLog' = out.usageLog
        /\ last' = [op |-> "_review_single_async", raised |-> out.raised,
                    result |-> out.result, steps |-> out.steps]
        /\ UNCHANGED <<clock, keyVars, concVars, extVars>>

\* system_prompt: str
ReviewSystemPrompts == {sp \in SystemPrompts : sp.type = "str"}

\* The arguments and faults that a call can tell apart: without the cache
\* it neither reads cache_ttl nor meets a fault of the cache, and a provider
\* that fails returns no text
CacheTtls(use_cache) == IF use_cache THEN 0..MaxTtl ELSE {0}
FaultsOf(use_cache) ==
    IF use_cache THEN ReviewFaults
    ELSE {f \in ReviewFaults : f.at \notin {"lookup", "store"}}

\* The request path starts on an empty cache directory
InitReview ==
    /\ clock = 0
    /\ files = [k \in KeySpace |-> AbsentFile]
    /\ last = [op |-> "init"]
    /\ Idle({"providerCalls", "usageLog", "pair", "writers",
             "fanout", "runs", "retry", "pricingFile", "pricingLast", "loggers"})

NextReview ==
    \/ Tick
    \/ \E p \in Prompts, m \in ModelNames, sp \in ReviewSystemPrompts, uc \in BOOLEAN :
         \E ttl \in CacheTtls(uc), f \in FaultsOf(uc) :
           \E text \in IF f.at = "provider" THEN {PyStr("")} ELSE Responses :
             _review_single(p, m, sp, uc, ttl, text, f)
    \/ \E p \in Prompts, m \in ModelNames, sp \in ReviewSystemPrompts, uc \in BOOLEAN :
         \E ttl \in CacheTtls(uc), f \in FaultsOf(uc) :
           \E text \in IF f.at = "provider" THEN {PyStr("")} ELSE Responses :
             _review_single_async(p, m, sp, uc, ttl, text, f)

SpecReview == InitReview /\ [][NextReview]_vars

----------------------------------------------------------------------------
(* Claims about the request path, checked under SpecReview *)

\* C10: a call of _review_single or _review_single_async with use_cache on
\* that finds a complete, unexpired entry for its fingerprint (and meets no
\* fault) returns the entry's text marked cached with zero tokens and zero
\* cost, makes no provider call and appends nothing to the usage log.
C10_HitServedFromCache ==
    [][last'.op \in {"_review_single", "_review_single_async"} =>
       \A p \in Prompts, m \in ModelNames, sp \in ReviewSystemPrompts,
          ttl \in 0..MaxTtl, text \in Responses :
        LET k == get_cache_key(m, p, sp)
            entry == files[k]
        IN
        ( /\ IsEntry(entry)
          /\ ~Expired(clock, StoredAt(entry), ttl)
          /\ \/ _review_single(p, m, sp, TRUE, ttl, text, NoFault)
             \/ _review_single_async(p, m, sp, TRUE, ttl, text, NoFault) )
        => /\ last'.result = CachedResult(JsonLoad(entry)["response"], m)
           /\ providerCalls' = providerCalls
           /\ usageLog' = usageLog]_vars

\* C11: a call of _review_single with use_cache on whose lookup misses
\* calls, in this order, the lookup, the provider once, log_api_call once and
\* cache_response once: one usage record is appended for the model asked of
\* the provider, and the entry of the fingerprint looked up holds the
\* provider's text; when the provider call fails, no usage record is appended
\* and nothing is stored.
C11_MissCallsLogsStores ==
    [][last'.op = "_review_single" /\ Len(last'.steps) >= 2 =>
       \A p \in Prompts, m \in ModelNames, sp \in ReviewSystemPrompts,
          ttl \in 0..MaxTtl, text \in Responses,
          f \in {IF last'.raised THEN [at |-> "provider", fault |-> "error"]
                                 ELSE NoFault} :
        LET k == get_cache_key(m, p, sp)
            look == lookup(files[k], clock, ttl, "none")
            looked == IF look.unlink THEN [files EXCEPT ![k] = AbsentFile] ELSE files
            model_id == normalize_model_name(m).model_id
        IN
        (look.why # "hit" /\ _review_single(p, m, sp, TRUE, ttl, text, f))
        => /\ providerCalls' = providerCalls + 1
           /\ f = NoFault =>
                /\ last'.steps = <<"get_cached_response", "complete",
                                   "log_api_call", "cache_response">>
                /\ usageLog' = Append(usageLog,
                                      UsageRecord(model_id, ProviderResponse(text, model_id)))
                /\ files' = [looked EXCEPT ![k] =
                               JsonDump([timestamp |-> IsoFormat(clock), model |-> m,
                                         response |-> text])]
           /\ f # NoFault =>
                /\ last'.steps = <<"get_cached_response", "complete">>
                /\ usageLog' = usageLog
                /\ files' = looked]_vars

\* A call of _review_single missed the cache, called the provider, logged
\* the call and stored the response.
C11_Witness ==
    /\ last.op = "_review_single"
    /\ last.steps = <<"get_cached_response", "complete", "log_api_call", "cache_response">>
    /\ ~last.raised
    /\ ~last.result.cached
    /\ Len(usageLog) = 1
    /\ \E k \in KeySpace : IsEntry(files[k])

----------------------------------------------------------------------------
(* Concurrent callers of the cache: threads of _review_multi, tasks of      *)
(* review_async, or several processes on one cache directory.  Each call    *)
(* of cache_response and get_cached_response is cut at its file operations, *)
(* which the operating system orders; what a call computes between two of   *)
(* them is local to it.                                                     *)

Writers == 1..NumWriters
Readers == 1..NumReaders

\* A file that holds a strict prefix of a JSON text (possibly nothing)
PartialFile == [kind |-> "partial"]

\* cache_response, lines 78-96: the call computes its key and its record,
\* and NamedTemporaryFile creates an empty file under a name of its own
cache_response_create(w, model, prompt, response, system_prompt) ==
    /\ writers[w].pc = "idle"
    /\ writers' = [writers EXCEPT ![w] =
                     [pc |-> "dump",
                      cache_key |-> get_cache_key(model, prompt, system_prompt),
                      cache_data |-> [timestamp |-> IsoFormat(clock),
                                      model |-> model, response |-> response]]]
    /\ tmps' = [tmps EXCEPT ![w] = PartialFile]
    /\ UNCHANGED <<cacheVars, apiVars, keyVars, readers, lastRename, extVars>>

\* lines 97-98 and the end of the with block: json.dump writes the record
\* and the file is closed
cache_response_dump(w) ==
    /\ writers[w].pc = "dump"
    /\ tmps' = [tmps EXCEPT ![w] = JsonDump(writers[w].cache_data)]
    /\ writers' = [writers EXCEPT ![w].pc = "replace"]
    /\ UNCHANGED <<cacheVars, apiVars, keyVars, readers, lastRename, extVars>>

\* line 101: os.replace(tmp_path, cache_file), atomic
cache_response_replace(w) ==
    /\ writers[w].pc = "replace"
    /\ files' = [files EXCEPT ![writers[w].cache_key] = tmps[w]]
    /\ tmps' = [tmps EXCEPT ![w] = AbsentFile]
    /\ lastRename' = [lastRename EXCEPT ![writers[w].cache_key] = w]
    /\ writers' = [writers EXCEPT ![w].pc = "done"]
    /\ UNCHANGED <<clock, last, apiVars, keyVars, readers, extVars>>

\* get_cached_response, lines 44-49: the key, and cache_file.exists()
get_cached_response_exists(r, model, prompt, system_prompt, ttl_hours) ==
    LET cache_key == get_cache_key(model, prompt, system_prompt) IN
    /\ readers[r].pc = "idle"
    /\ readers' = [readers EXCEPT ![r] =
                     IF files[cache_key].kind = "absent"
                     THEN [pc |-> "idle", seen |-> AbsentFile, result |-> PyNone]
                     ELSE [pc |-> "open", cache_key |-> cache_key,
                           ttl_hours |-> ttl_hours]]
    /\ UNCHANGED <<cacheVars, apiVars, keyVars, writers, tmps, lastRename, extVars>>

\* lines 52-57 and 61-65: the file is opened and parsed (it may be gone by
\* now, which open() reports by raising) and its timestamp compared
get_cached_response_load(r) ==
    LET content == files[readers[r].cache_key]
        out == lookup(content, clock, readers[r].ttl_hours, "none")
    IN  /\ readers[r].pc = "open"
        /\ readers' = [readers EXCEPT ![r] =
                         IF out.unlink
                         THEN [pc |-> "unlink", cache_key |-> readers[r].cache_key,
                               seen |-> content]
                         ELSE [pc |-> "idle", seen |-> content,
                               result |-> out.result]]
        /\ UNCHANGED <<cacheVars, apiVars, keyVars, writers, tmps, lastRename, extVars>>

\* lines 59-60: cache_file.unlink() removes whatever file has the entry's
\* name now (and raises, which is caught, when there is none)
get_cached_response_unlink(r) ==
    /\ readers[r].pc = "unlink"
    /\ files' = [files EXCEPT ![readers[r].cache_key] = AbsentFile]
    /\ readers' = [readers EXCEPT ![r] =
                     [pc |-> "idle", seen |-> readers[r].seen, result |-> PyNone]]
    /\ UNCHANGED <<clock, last, apiVars, keyVars, writers, tmps, lastRename, extVars>>

\* The calls overlap within one tick of the clock.  The cache directory they
\* start on holds, for some fingerprints, an entry stored long ago, which
\* every TTL of the model finds expired.
StaleEntry(model) ==
    JsonDump([timestamp |-> IsoFormat(0), model |-> model, response |-> PyStr("r")])

InitConc ==
    /\ clock = Hours(MaxTtl) + 1
    /\ \E stale \in SUBSET ModelNames :
         files = [k \in KeySpace |->
                    IF \E m \in stale : k = get_cache_key(m, "diff", PyNone)
                    THEN StaleEntry(CHOOSE m \in stale : k = get_cache_key(m, "diff", PyNone))
                    ELSE AbsentFile]
    /\ last = [op |-> "init"]
    /\ Idle({"providerCalls", "usageLog", "pair",
             "fanout", "runs", "retry", "pricingFile", "pricingLast", "loggers"})
    /\ writers = [w \in Writers |-> [pc |-> "idle"]]
    /\ readers = [r \in Readers |->
                    [pc |-> "idle", seen |-> AbsentFile, result |-> PyNone]]
    /\ tmps = [w \in Writers |-> AbsentFile]
    /\ lastRename = [k \in KeySpace |-> 0]

NextConc ==
    \/ \E w \in Writers :
        \/ \E m \in ModelNames, p \in Prompts, r \in Responses, sp \in SystemPrompts :
             cache_response_create(w, m, p, r, sp)
        \/ cache_response_dump(w)
        \/ cache_response_replace(w)
    \/ \E r \in Readers :
        \/ \E m \in ModelNames, p \in Prompts, sp \in SystemPrompts, ttl \in 0..MaxTtl :
             get_cached_response_exists(r, m, p, sp, ttl)
        \/ get_cached_response_load(r)
        \/ get_cached_response_unlink(r)

SpecConc == InitConc /\ [][NextConc]_vars

----------------------------------------------------------------------------
(* Claims about concurrent callers, checked under SpecConc *)

Started == {w \in Writers : writers[w].pc # "idle"}
AllStored == \A w \in Writers : writers[w].pc = "done"

\* The calls of cache_response that write the fingerprint k
WritersOf(k) == {w \in Started : writers[w].cache_key = k}

\* The file contents the lookups have read
Seen == {readers[r].seen : r \in {x \in Readers : "seen" \in DOMAIN readers[x]}}

\* C3: when the concurrent cache_response calls are for distinct
\* fingerprints, every file a concurrent get_cached_response reads is absent
\* or a complete entry, and once all the stores have finished each
\* fingerprint stored holds the complete entry its store wrote.
C3_DistinctFingerprints ==
    (\A k \in KeySpace : Cardinality(WritersOf(k)) <= 1)
    => /\ \A content \in Seen : content = AbsentFile \/ IsEntry(content)
       /\ AllStored =>
            \A w \in Writers :
                files[writers[w].cache_key] = JsonDump(writers[w].cache_data)

\* C4: when several concurrent cache_response calls are for the same
\* fingerprint, every file a concurrent get_cached_response reads is absent
\* or the complete record of one call, and once all of them have finished the
\* entry is the complete record of the call whose rename came last.
C4_SameFingerprint ==
    \A k \in KeySpace :
        Cardinality(WritersOf(k)) >= 2
        => /\ \A content \in Seen :
                \/ content \in {AbsentFile} \cup {StaleEntry(m) : m \in ModelNames}
                \/ \E w \in Started : content = JsonDump(writers[w].cache_data)
           /\ AllStored =>
                files[k] = JsonDump(writers[lastRename[k]].cache_data)

----------------------------------------------------------------------------
(* review and review_async with several models (claude_mm/api.py) *)

\* cache_ttl or config.get("cache_ttl_hours", 24), with the 24 hours of
\* DEFAULT_CONFIG (claude_mm/config.py)
cache_ttl_or_config(cache_ttl) ==
    IF cache_ttl = 0 THEN 24 ELSE cache_ttl

\* system_prompts of review
review_system_prompts ==
    "general" :> "You are an expert code reviewer. Provide thorough, actionable feedback."
    @@ "security" :> ("You are a security expert. Focus on security vulnerabilities, "
                      \o "input validation, and potential exploits.")
    @@ "performance" :> ("You are a performance expert. Focus on optimization opportunities, "
                         \o "algorithmic efficiency, and resource usage.")
    @@ "architecture" :> ("You are a software architect. Focus on design patterns, modularity, "
                          \o "and long-term maintainability.")

\* system_prompts of review_async
review_async_system_prompts ==
    "general" :> "You are an expert code reviewer. Provide thorough, actionable feedback."
    @@ "security" :> "You are a security expert. Focus on security vulnerabilities."
    @@ "performance" :> "You are a performance expert. Focus on optimization opportunities."
    @@ "architecture" :>
         "You are a software architect. Focus on design patterns and maintainability."

\* system_prompts.get(focus, system_prompts["general"])
system_prompt_of(system_prompts, focus) ==
    PyStr(IF focus \in DOMAIN system_prompts THEN system_prompts[focus]
          ELSE system_prompts["general"])

\* The focus modes requested, one of them unknown to both tables
Focuses == {"general", "security", "performance", "architecture", "style"}

\* The model names requested: those of ModelNames and one that
\* normalize_model_name does not know
RequestedNames == ModelNames \cup {"llama"}

\* The longest list of models requested
NumModels == 2

\* models: two or more names, each requested once
ModelLists ==
    {l \in UNION {[1..n -> RequestedNames] : n \in 2..NumModels} :
        \A i, j \in DOMAIN l : l[i] = l[j] => i = j}

\* The fingerprints the two entry points can look up
FocusKeySpace ==
    {get_cache_key(m, p, system_prompt_of(t, f)) :
        m \in RequestedNames, p \in Prompts,
        t \in {review_system_prompts, review_async_system_prompts}, f \in Focuses}

\* MultiReviewResult(results): total_cost = sum(r.cost for r in results.values() if r.cost)
RECURSIVE SumCost(_, _)
SumCost(results, names) ==
    IF names = {} THEN 0
    ELSE LET n == CHOOSE x \in names : TRUE
         IN results[n].cost + SumCost(results, names \ {n})

MultiReviewResult(results) ==
    [results |-> results, total_cost |-> SumCost(results, DOMAIN results)]

\* review / review_async up to the start of the workers: the model list and
\* the system prompt of the focus are fixed, one worker per model is pending
fan_out(op, system_prompts, prompt, models, focus, use_cache, cache_ttl) ==
    [op |-> op, prompt |-> prompt, models |-> models,
     system_prompt |-> system_prompt_of(system_prompts, focus),
     use_cache |-> use_cache, cache_ttl |-> cache_ttl_or_config(cache_ttl),
     pending |-> DOMAIN models, done |-> <<>>,
     results |-> <<>>, errors |-> <<>>,
     returned |-> FALSE, aggregate |-> PyNone]

review(prompt, models, focus, use_cache, cache_ttl) ==
    /\ DOMAIN fanout = {}
    /\ fanout' = fan_out("review", review_system_prompts, prompt, models, focus,
                         use_cache, cache_ttl)
    /\ last' = [op |-> "review"]
    /\ UNCHANGED <<clock, files, apiVars, keyVars, concVars, runs, retry, pricingFile, pricingLast, loggers>>

review_async(prompt, models, focus, use_cache, cache_ttl) ==
    /\ DOMAIN fanout = {}
    /\ fanout' = fan_out("review_async", review_async_system_prompts, prompt, models,
                         focus, use_cache, cache_ttl)
    /\ last' = [op |-> "review_async"]
    /\ UNCHANGED <<clock, files, apiVars, keyVars, concVars, runs, retry, pricingFile, pricingLast, loggers>>

\* (mutant of thread_outcome: a result served from the cache is dropped)
thread_outcome_FreshOnly(results, model_name, out) ==
    IF out.raised \/ out.result.cached THEN results
    ELSE (model_name :> out.result) @@ results

\* results[model_name] = result, unless _review_single raised
thread_outcome(results, model_name, out) ==
    IF out.raised THEN results ELSE (model_name :> out.result) @@ results

\* One thread of _review_multi runs review_thread(model_name) to its end
review_thread(i, text, fault) ==
    /\ DOMAIN fanout # {}
    /\ fanout.op = "review"
    /\ i \in fanout.pending
    /\ \E out \in {review_single(fanout.prompt, fanout.models[i], fanout.system_prompt,
                                 fanout.use_cache, fanout.cache_ttl, text, fault)} :
        /\ files' = out.files
        /\ providerCalls' = IF out.called THEN providerCalls + 1 ELSE providerCalls
        /\ usageLog' = out.usageLog
        /\ fanout' = [fanout EXCEPT
                        !.pending = @ \ {i},
                        !.done = (i :> [raised |-> out.raised, result |-> out.result]) @@ @,
                        !.results = thread_outcome(@, fanout.models[i], out),
                        !.errors = IF out.raised
                                   THEN (fanout.models[i] :> "error") @@ @ ELSE @]
        /\ last' = [op |-> "review_thread", raised |-> FALSE, steps |-> out.steps]
    /\ UNCHANGED <<clock, keyVars, concVars, runs, retry, pricingFile, pricingLast, loggers>>

\* for t in threads: t.join(), then return MultiReviewResult(results)
_review_multi ==
    /\ DOMAIN fanout # {}
    /\ fanout.op = "review"
    /\ fanout.pending = {}
    /\ ~fanout.returned
    /\ fanout' = [fanout EXCEPT !.returned = TRUE,
                                !.aggregate = MultiReviewResult(fanout.results)]
    /\ last' = [op |-> "_review_multi", raised |-> FALSE]
    /\ UNCHANGED <<clock, files, apiVars, keyVars, concVars, runs, retry, pricingFile, pricingLast, loggers>>

\* One task of asyncio.gather(*tasks, return_exceptions=True) runs
\* _review_single_async to its end: results_list[i] is its result or its
\* exception
review_task(i, text, fault) ==
    /\ DOMAIN fanout # {}
    /\ fanout.op = "review_async"
    /\ i \in fanout.pending
    /\ \E out \in {review_single(fanout.prompt, fanout.models[i], fanout.system_prompt,
                                 fanout.use_cache, fanout.cache_ttl, text, fault)} :
        /\ files' = out.files
        /\ providerCalls' = IF out.called THEN providerCalls + 1 ELSE providerCalls
        /\ usageLog' = out.usageLog
        /\ fanout' = [fanout EXCEPT
                        !.pending = @ \ {i},
                        !.done = (i :> [raised |-> out.raised, result |-> out.result]) @@ @]
        /\ last' = [op |-> "review_task", raised |-> FALSE, steps |-> out.steps]
    /\ UNCHANGED <<clock, keyVars, concVars, runs, retry, pricingFile, pricingLast, loggers>>

\* The dict review_async builds from results_list, in the order of model_list
RECURSIVE results_dict(_, _, _, _)
results_dict(models, results_list, i, results) ==
    IF i > Len(models) THEN results
    ELSE results_dict(models, results_list, i + 1,
                      thread_outcome(results, models[i], results_list[i]))

\* await asyncio.gather(...) returns when every task has finished; then the
\* dict is built and MultiReviewResult(results) returned
review_async_gather ==
    /\ DOMAIN fanout # {}
    /\ fanout.op = "review_async"
    /\ fanout.pending = {}
    /\ ~fanout.returned
    /\ LET results == results_dict(fanout.models, fanout.done, 1, <<>>)
       IN fanout' = [fanout EXCEPT !.returned = TRUE, !.results = results,
                                   !.aggregate = MultiReviewResult(results)]
    /\ last' = [op |-> "review_async", raised |-> FALSE]
    /\ UNCHANGED <<clock, files, apiVars, keyVars, concVars, runs, retry, pricingFile, pricingLast, loggers>>

\* An entry an earlier review with the general focus left in the cache
EarlierEntry(model) ==
    JsonDump([timestamp |-> IsoFormat(0), model |-> model, response |-> PyStr("r")])

InitMulti ==
    /\ clock = 0
    /\ \E earlier \in SUBSET ModelNames :
         files = [k \in FocusKeySpace |->
                    IF \E m \in earlier :
                         k = get_cache_key(m, "diff",
                                 system_prompt_of(review_system_prompts, "general"))
                    THEN EarlierEntry(CHOOSE m \in earlier :
                             k = get_cache_key(m, "diff",
                                     system_prompt_of(review_system_prompts, "general")))
                    ELSE AbsentFile]
    /\ last = [op |-> "init"]
    /\ Idle({"providerCalls", "usageLog", "pair", "writers",
             "fanout", "runs", "retry", "pricingFile", "pricingLast", "loggers"})

\* Time passes between the earlier review and the request; the workers of
\* one request overlap within one tick of the clock
NextMulti ==
    \/ DOMAIN fanout = {} /\ Tick
    \/ \E p \in Prompts, l \in ModelLists, f \in {"general", "security"}, uc \in BOOLEAN :
         \E ttl \in CacheTtls(uc) :
           review(p, l, f, uc, ttl)
    \/ \E i \in 1..NumModels, text \in Responses :
         \E f \in FaultsOf(DOMAIN fanout # {} /\ fanout.use_cache) :
           review_thread(i, text, f)
    \/ _review_multi
    \/ \E p \in Prompts, l \in ModelLists, f \in {"general", "security"}, uc \in BOOLEAN :
         \E ttl \in CacheTtls(uc) :
           review_async(p, l, f, uc, ttl)
    \/ \E i \in 1..NumModels, text \in Responses :
         \E f \in FaultsOf(DOMAIN fanout # {} /\ fanout.use_cache) :
           review_task(i, text, f)
    \/ review_async_gather

SpecMulti == InitMulti /\ [][NextMulti]_vars

\* The multi-model review has returned its aggregate
Returned == DOMAIN fanout # {} /\ fanout.returned

\* C12: the key set of the aggregate a multi-model review returns is the
\* list of models the caller requested, in whatever order the workers
\* finish and whether each model succeeds or fails.
C12_KeySetIsRequested ==
    Returned =>
        DOMAIN fanout.aggregate.results = {fanout.models[i] : i \in DOMAIN fanout.models}

\* C13: when a multi-model review returns its aggregate, every worker has
\* run to completion, whether or not a sibling failed, and every worker
\* that succeeded has its result in the aggregate under its model's name.
C13_SiblingsRunAndReported ==
    Returned =>
        \A i \in DOMAIN fanout.models :
            /\ i \notin fanout.pending
            /\ i \in DOMAIN fanout.done
            /\ ~fanout.done[i].raised =>
                 /\ fanout.models[i] \in DOMAIN fanout.aggregate.results
                 /\ fanout.aggregate.results[fanout.models[i]] = fanout.done[i].result

\* A review of two models returned after one worker failed and the other
\* succeeded.
C13_Witness ==
    /\ Returned
    /\ \E i, j \in DOMAIN fanout.models :
         /\ fanout.done[i].raised
         /\ ~fanout.done[j].raised
         /\ fanout.models[j] \in DOMAIN fanout.aggregate.results

----------------------------------------------------------------------------
(* retry_with_backoff (claude_mm/retry.py) *)

\* str.lower() of a Python str, held as the sequence of its characters
Lower(str) ==
    LET UpperCase ==
          <<"A", "B", "C", "D", "E", "F", "G", "H", "I", "J", "K", "L", "M", "N",
            "O", "P", "Q", "R", "S", "T", "U", "V", "W", "X", "Y", "Z">>
        LowerCase ==
          <<"a", "b", "c", "d", "e", "f", "g", "h", "i", "j", "k", "l", "m", "n",
            "o", "p", "q", "r", "s", "t", "u", "v", "w", "x", "y", "z">>
    IN [i \in DOMAIN str |->
          IF \E j \in DOMAIN UpperCase : UpperCase[j] = str[i]
          THEN LowerCase[CHOOSE j \in DOMAIN UpperCase : UpperCase[j] = str[i]]
          ELSE str[i]]

\* x in error_msg
Contains(x, str) ==
    \E i \in 0..(Len(str) - Len(x)) : SubSeq(str, i + 1, i + Len(x)) = x

\* The messages of the exceptions the wrapped function raises
ErrorMessages ==
    [ConnectionReset |->
        <<"O", "p", "e", "n", "A", "I", " ", "A", "P", "I", " ", "e", "r",
          "r", "o", "r", ":", " ", "C", "o", "n", "n", "e", "c", "t", "i",
          "o", "n", " ", "r", "e", "s", "e", "t">>,
     TooManyRequests |->
        <<"O", "p", "e", "n", "A", "I", " ", "A", "P", "I", " ", "e", "r",
          "r", "o", "r", ":", " ", "E", "r", "r", "o", "r", " ", "c", "o",
          "d", "e", ":", " ", "4", "2", "9">>,
     RateLimitExceeded |->
        <<"R", "a", "t", "e", " ", "L", "i", "m", "i", "t", " ", "E", "x",
          "c", "e", "e", "d", "e", "d">>,
     InvalidApiKey |->
        <<"O", "p", "e", "n", "A", "I", " ", "A", "P", "I", " ", "e", "r",
          "r", "o", "r", ":", " ", "I", "n", "c", "o", "r", "r", "e", "c",
          "t", " ", "A", "P", "I", " ", "K", "e", "y">>,
     Unauthorized |->
        <<"4", "0", "1", " ", "U", "n", "a", "u", "t", "h", "o", "r", "i",
          "z", "e", "d">>,
     InvalidRequest |->
        <<"I", "n", "v", "a", "l", "i", "d", " ", "r", "e", "q", "u", "e",
          "s", "t">>]

\* The substrings the wrapper looks for
Needles ==
    [api_key |->
        <<"a", "p", "i", " ", "k", "e", "y">>,
     authentication |->
        <<"a", "u", "t", "h", "e", "n", "t", "i", "c", "a", "t", "i", "o",
          "n">>,
     unauthorized |->
        <<"u", "n", "a", "u", "t", "h", "o", "r", "i", "z", "e", "d">>,
     invalid |->
        <<"i", "n", "v", "a", "l", "i", "d">>,
     code_429 |->
        <<"4", "2", "9">>,
     rate_limit |->
        <<"r", "a", "t", "e", " ", "l", "i", "m", "i", "t">>]

\* (mutant of is_auth_error: 'invalid' is not looked for)
is_auth_error_NoInvalid(e) ==
    \E x \in {Needles.api_key, Needles.authentication, Needles.unauthorized} :
        Contains(x, Lower(e))

\* any(x in error_msg for x in ['api key', 'authentication', 'unauthorized',
\* 'invalid']) with error_msg = str(e).lower()
is_auth_error(e) ==
    \E x \in {Needles.api_key, Needles.authentication, Needles.unauthorized,
               Needles.invalid} :
        Contains(x, Lower(e))

\* '429' in error_msg or 'rate limit' in error_msg
is_rate_limit(e) ==
    Contains(Needles.code_429, Lower(e)) \/ Contains(Needles.rate_limit, Lower(e))

\* The largest max_attempts, delay and backoff_factor a decorator is given
MaxAttempts == 3
MaxDelay == 3
MaxFactor == 2

\* min(delay * backoff_factor, max_delay)
next_delay(delay, backoff_factor, max_delay) ==
    IF delay * backoff_factor <= max_delay THEN delay * backoff_factor ELSE max_delay

\* (mutant of attempts_remain: one attempt more than max_attempts)
attempts_remain_OneMore(attempt, max_attempts) == attempt <= max_attempts

\* if attempt < max_attempts
attempts_remain(attempt, max_attempts) == attempt < max_attempts

\* An exception func raises, with its message
Exception(e) == [type |-> "Exception", message |-> e]

\* wrapper(*args, **kwargs) up to the first invocation of func; with
\* max_attempts = 0 the loop body never runs and raise last_exception, with
\* last_exception = None, raises a TypeError
wrapper(max_attempts, initial_delay, max_delay, backoff_factor) ==
    /\ DOMAIN retry = {}
    /\ retry' = [max_attempts |-> max_attempts, initial_delay |-> initial_delay,
                 max_delay |-> max_delay, backoff_factor |-> backoff_factor,
                 attempt |-> 1, delay |-> initial_delay,
                 outcomes |-> <<>>, sleeps |-> <<>>, printed |-> <<>>,
                 status |-> IF max_attempts >= 1 THEN "running" ELSE "raised",
                 exception |-> IF max_attempts >= 1 THEN PyNone ELSE [type |-> "TypeError"]]
    /\ UNCHANGED <<cacheVars, apiVars, keyVars, concVars, fanout, runs, pricingFile, pricingLast, loggers>>

\* return func(*args, **kwargs)
func_returns ==
    /\ DOMAIN retry # {}
    /\ retry.status = "running"
    /\ retry' = [retry EXCEPT !.outcomes = Append(@, [type |-> "value"]),
                               !.status = "returned"]
    /\ UNCHANGED <<cacheVars, apiVars, keyVars, concVars, fanout, runs, pricingFile, pricingLast, loggers>>

\* func raises e: the except clause, and the raise after the loop when this
\* was the last attempt
func_raises(e) ==
    /\ DOMAIN retry # {}
    /\ retry.status = "running"
    /\ retry' =
         IF is_auth_error(e)
         THEN [retry EXCEPT !.outcomes = Append(@, Exception(e)), !.status = "raised",
                            !.exception = Exception(e)]
         ELSE IF attempts_remain(retry.attempt, retry.max_attempts)
         THEN [retry EXCEPT
                 !.outcomes = Append(@, Exception(e)),
                 !.printed = Append(@, IF is_rate_limit(e) THEN "rate limited"
                                       ELSE "api call failed"),
                 !.sleeps = Append(@, retry.delay),
                 !.delay = next_delay(retry.delay, retry.backoff_factor, retry.max_delay),
                 !.attempt = @ + 1]
         ELSE [retry EXCEPT !.outcomes = Append(@, Exception(e)),
                            !.printed = Append(@, "failed after attempts"),
                            !.status = "raised", !.exception = Exception(e)]
    /\ UNCHANGED <<cacheVars, apiVars, keyVars, concVars, fanout, runs, pricingFile, pricingLast, loggers>>

InitRetry ==
    /\ clock = 0
    /\ files = [k \in KeySpace |-> AbsentFile]
    /\ last = [op |-> "init"]
    /\ Idle({"providerCalls", "usageLog", "pair", "writers",
             "fanout", "runs", "retry", "pricingFile", "pricingLast", "loggers"})

NextRetry ==
    \/ \E n \in 0..MaxAttempts, d \in 1..MaxDelay, cap \in 1..MaxDelay,
          factor \in 1..MaxFactor :
            wrapper(n, d, cap, factor)
    \/ func_returns
    \/ \E n \in DOMAIN ErrorMessages : func_raises(ErrorMessages[n])

SpecRetry == InitRetry /\ [][NextRetry]_vars

\* The call under way or finished, the invocations of func it made, and
\* whether a failure is one the claims call transient
Wrapped == DOMAIN retry # {} /\ retry.max_attempts >= 1
Invocations == Len(retry.outcomes)
Failure(o) == o.type = "Exception"
IndicatesAuth(o) ==
    /\ Failure(o)
    /\ \E x \in {Needles.api_key, Needles.authentication, Needles.unauthorized,
                  Needles.invalid} :
         Contains(x, Lower(o.message))
Transient(o) == Failure(o) /\ ~IndicatesAuth(o)

\* C15: a call wrapped by retry_with_backoff(max_attempts=n), n >= 1, invokes
\* the function at least once and at most n times; it returns on the first
\* success without invoking again, invokes again after each transient
\* failure while attempts remain, and after n transient failures raises the
\* last failure.
C15_AttemptBudget ==
    Wrapped =>
        /\ Invocations <= retry.max_attempts
        /\ retry.status # "running" => Invocations >= 1
        /\ \A k \in 1..(Invocations - 1) : Transient(retry.outcomes[k])
        /\ retry.status = "returned"
             <=> (Invocations >= 1 /\ ~Failure(retry.outcomes[Invocations]))
        /\ (/\ Invocations >= 1
            /\ Transient(retry.outcomes[Invocations])
            /\ Invocations < retry.max_attempts) => retry.status = "running"
        /\ (/\ Invocations = retry.max_attempts
            /\ Transient(retry.outcomes[Invocations]))
             => /\ retry.status = "raised"
                /\ retry.exception = retry.outcomes[Invocations]

\* A call with the largest max_attempts invoked the function that many
\* times and raised its last transient failure.
C15_Witness ==
    /\ Wrapped
    /\ retry.max_attempts = MaxAttempts
    /\ Invocations = MaxAttempts
    /\ retry.status = "raised"
    /\ Transient(retry.outcomes[Invocations])

\* initial_delay * backoff_factor^(k-1), capped at max_delay
RECURSIVE Pow(_, _)
Pow(b, k) == IF k = 0 THEN 1 ELSE b * Pow(b, k - 1)
CappedWait(k) ==
    LET w == retry.initial_delay * Pow(retry.backoff_factor, k - 1)
    IN IF w <= retry.max_delay THEN w ELSE retry.max_delay

\* C16: the wait before the k-th retry is initial_delay * backoff_factor^(k-1)
\* capped at max_delay, so that no wait, the first included, exceeds
\* max_delay; no wait follows the final failed attempt; attempts and waits do
\* not depend on whether a failure is a rate-limit or a generic one.
C16_WaitsCapped ==
    Wrapped =>
        /\ \A k \in DOMAIN retry.sleeps :
             /\ retry.sleeps[k] = CappedWait(k)
             /\ retry.sleeps[k] <= retry.max_delay
        /\ Len(retry.sleeps) =
             IF retry.status = "running" THEN Invocations ELSE Invocations - 1

\* C17: a failure whose message indicates an authentication, authorization
\* or invalid-request error is raised on the attempt where it occurs, with no
\* further invocation and no wait, also after earlier transient failures.
C17_AuthNotRetried ==
    Wrapped =>
        \A k \in 1..Invocations :
            IndicatesAuth(retry.outcomes[k])
            => /\ k = Invocations
               /\ retry.status = "raised"
               /\ retry.exception = retry.outcomes[k]
               /\ Len(retry.sleeps) = k - 1

\* A call met an authentication failure after a transient one and raised it.
C17_Witness ==
    /\ Wrapped
    /\ Invocations >= 2
    /\ Transient(retry.outcomes[1])
    /\ IndicatesAuth(retry.outcomes[Invocations])
    /\ retry.status = "raised"

----------------------------------------------------------------------------
(* The thread path (review) and the task path (review_async) on one request *)

\* @retry_with_backoff(max_attempts=3, initial_delay=1, max_delay=10) on the
\* providers' complete; complete_async carries no decorator
complete_max_attempts == 3

\* What successive invocations of the provider's API give: a completion, a
\* transient failure or an authentication failure
ApiOutcomes ==
    {[type |-> "value", text |-> PyStr("r")],
     Exception(ErrorMessages.ConnectionReset), Exception(ErrorMessages.InvalidApiKey)}
ApiOutcomeSeqs == [1..complete_max_attempts -> ApiOutcomes]

\* The number of invocations the decorated complete makes, from its
\* attempt-th on
RECURSIVE complete_invocations(_, _)
complete_invocations(outcomes, attempt) ==
    IF outcomes[attempt].type = "value" THEN attempt
    ELSE IF is_auth_error(outcomes[attempt].message) THEN attempt
    ELSE IF attempts_remain(attempt, complete_max_attempts)
         THEN complete_invocations(outcomes, attempt + 1)
    ELSE attempt

\* complete_async invokes the API once
complete_async_invocations(outcomes) == 1

\* The request of one model through system_prompts and a provider method
\* that makes the given number of invocations: the fingerprint it uses, the
\* invocations of the provider's API, the usage log and the cache directory
\* it leaves, and its result
run_single(system_prompts, invocations, prompt, model, focus, use_cache, ttl, outcomes) ==
    LET system_prompt == system_prompt_of(system_prompts, focus)
        final == outcomes[invocations]
        out == review_single(prompt, model, system_prompt, use_cache,
                             cache_ttl_or_config(ttl),
                             IF final.type = "value" THEN final.text ELSE PyStr(""),
                             IF final.type = "value" THEN NoFault
                             ELSE [at |-> "provider", fault |-> "error"])
    IN  [cache_key |-> get_cache_key(model, prompt, system_prompt),
         invocations |-> IF out.called THEN invocations ELSE 0,
         usageLog |-> out.usageLog, files |-> out.files,
         raised |-> out.raised, result |-> out.result]

\* review(prompt, model=model, focus=focus, ...): _review_single
review_run(prompt, model, focus, use_cache, cache_ttl, outcomes) ==
    run_single(review_system_prompts, complete_invocations(outcomes, 1),
               prompt, model, focus, use_cache, cache_ttl, outcomes)

\* await review_async(prompt, model=model, focus=focus, ...): _review_single_async
review_async_run(prompt, model, focus, use_cache, cache_ttl, outcomes) ==
    run_single(review_async_system_prompts, complete_async_invocations(outcomes),
               prompt, model, focus, use_cache, cache_ttl, outcomes)

\* The same request made on both paths from the same cache directory, usage
\* log and clock, with the same outcomes of the provider's API
BothPaths(prompt, model, focus, use_cache, cache_ttl, outcomes) ==
    /\ DOMAIN runs = {}
    /\ runs' = [focus |-> focus, outcomes |-> outcomes, use_cache |-> use_cache,
                thread |-> review_run(prompt, model, focus, use_cache, cache_ttl,
                                      outcomes),
                task |-> review_async_run(prompt, model, focus, use_cache, cache_ttl,
                                          outcomes)]
    /\ UNCHANGED <<cacheVars, apiVars, keyVars, concVars, fanout, retry, pricingFile, pricingLast, loggers>>

NextEquiv ==
    \/ Tick
    \/ \E p \in Prompts, m \in RequestedNames, f \in Focuses, uc \in BOOLEAN :
         \E ttl \in CacheTtls(uc), o \in ApiOutcomeSeqs :
           BothPaths(p, m, f, uc, ttl, o)

SpecEquiv == InitMulti /\ [][NextEquiv]_vars

\* C14: for the same arguments, the same cache directory and the same
\* outcomes of the provider, the thread path and the task path use the same
\* fingerprint, invoke the provider as often (retries included), leave the
\* same usage log and cache directory, and return the same result.
C14_PathsEquivalent ==
    DOMAIN runs # {} => runs.thread = runs.task

----------------------------------------------------------------------------
(* The pricing store (claude_mm/pricing.py) *)

\* A Python dict with str keys, and what dict.get, "key in d" and
\* d[key] = value do
PyDict(items) == [type |-> "dict", items |-> items]
Get(d, key, default) == IF key \in DOMAIN d.items THEN d.items[key] ELSE default
SetItem(d, key, value) == PyDict((key :> value) @@ d.items)

\* {"input": i, "output": o}, dollars per million tokens in thousandths
Price(i, o) == [input |-> i, output |-> o]

\* _metadata
Metadata(last_updated, version, source) ==
    PyDict([last_updated |-> last_updated, version |-> version, source |-> source])

DEFAULT_PRICING ==
    PyDict(
       "openai" :> PyDict("gpt-5.2-chat-latest" :> Price(400, 1600)
                          @@ "gpt-5.2" :> Price(1750, 14000)
                          @@ "gpt-5.2-pro" :> Price(21000, 84000)
                          @@ "gpt-4o" :> Price(2500, 10000)
                          @@ "gpt-4" :> Price(30000, 60000))
    @@ "google" :> PyDict("gemini-3-flash-preview" :> Price(75, 300)
                          @@ "gemini-2.0-flash-exp" :> Price(75, 300)
                          @@ "gemini-pro" :> Price(500, 1500))
    @@ "anthropic" :> PyDict("claude-sonnet-4-5-20250929" :> Price(3000, 15000)
                             @@ "claude-3-5-sonnet-20241022" :> Price(3000, 15000)
                             @@ "claude-3-opus-20240229" :> Price(15000, 75000)
                             @@ "claude-3-haiku-20240307" :> Price(250, 1250))
    @@ "_metadata" :> Metadata(IsoFormat(0), "1.0.0", "embedded_defaults"))

\* yaml.dump(pricing, f) of a whole document and yaml.safe_load(f)
YamlDump(pricing) == [kind |-> "yaml", doc |-> pricing]
YamlParses(content) == content.kind = "yaml"
YamlLoad(content) == content.doc

\* bool(pricing) and "_metadata" in pricing, for what safe_load can give: a
\* mapping, a scalar str (substring test) or None
HasMarker(pricing) ==
    CASE pricing.type = "dict" ->
            DOMAIN pricing.items # {} /\ "_metadata" \in DOMAIN pricing.items
      [] pricing.type = "str" -> Contains(<<"_", "m", "e", "t", "a", "d", "a", "t", "a">>, pricing.chars)
      [] OTHER -> FALSE

\* The faults a call of the store can meet: the directory cannot be created,
\* the file cannot be read, cannot be opened for writing, or the write fails
\* midway; the fetch fails or times out, or its body is not JSON
PricingFaults == {"none", "mkdir", "read", "open", "dump", "network", "parse"}

\* save_pricing: whether it raises, and the file it leaves.  The mkdir of
\* get_pricing_file is outside the try; open(.., "w") truncates the file
\* before yaml.dump writes it.
save_pricing(pricing, file, fault) ==
    IF fault = "mkdir" THEN [raised |-> TRUE, file |-> file]
    ELSE IF fault = "open" THEN [raised |-> FALSE, file |-> file]
    ELSE IF fault = "dump" THEN [raised |-> FALSE, file |-> PartialFile]
    ELSE [raised |-> FALSE, file |-> YamlDump(pricing)]

\* load_pricing: whether it raises, what it returns and the file it leaves
load_pricing(file, fault) ==
    IF fault = "mkdir"
    THEN [raised |-> TRUE, result |-> PyNone, file |-> file]
    ELSE IF /\ file.kind # "absent"
            /\ fault # "read"
            /\ YamlParses(file)
            /\ HasMarker(YamlLoad(file))
         THEN [raised |-> FALSE, result |-> YamlLoad(file), file |-> file]
    ELSE [raised |-> FALSE, result |-> DEFAULT_PRICING,
          file |-> save_pricing(DEFAULT_PRICING, file, fault).file]

\* The default model whose price stands for a provider's unknown models
Providers == {"openai", "google", "anthropic"}
default_model(provider) ==
    CASE provider = "openai" -> "gpt-5.2"
      [] provider = "google" -> "gemini-3-flash-preview"
      [] provider = "anthropic" -> "claude-sonnet-4-5-20250929"

\* get_model_pricing, from the outcome of its load_pricing
get_model_pricing(loaded, provider, model) ==
    IF loaded.raised THEN loaded
    ELSE IF loaded.result.type # "dict"
         THEN [loaded EXCEPT !.raised = TRUE, !.result = PyNone]      \* no .get
    ELSE LET provider_pricing == Get(loaded.result, provider, PyDict(<<>>))
         IN IF provider_pricing.type # "dict"
            THEN [loaded EXCEPT !.raised = TRUE, !.result = PyNone]   \* no "in"
            ELSE IF model \in DOMAIN provider_pricing.items
                 THEN [loaded EXCEPT !.result = provider_pricing.items[model]]
            ELSE IF provider \in Providers
                 THEN [loaded EXCEPT
                         !.result = Get(provider_pricing, default_model(provider), PyNone)]
            ELSE [loaded EXCEPT !.result = PyNone]

\* update_pricing_from_url: what it returns and the file it leaves.  fetched
\* is the value json.loads gives for the body of the response.
update_pricing_from_url(url, fetched, file, now, fault) ==
    IF fault \in {"network", "parse"} THEN [result |-> FALSE, file |-> file]
    ELSE IF fetched.type # "dict" THEN [result |-> FALSE, file |-> file]
    ELSE IF Get(fetched, "_metadata", PyDict(<<>>)).type # "dict"
         THEN [result |-> FALSE, file |-> file]
    ELSE LET version == Get(Get(fetched, "_metadata", PyDict(<<>>)), "version", "1.0.0")
             new_pricing == SetItem(fetched, "_metadata", Metadata(IsoFormat(now), version, url))
             saved == save_pricing(new_pricing, file, fault)
         IN IF ~(\A p \in Providers : p \in DOMAIN new_pricing.items)
            THEN [result |-> FALSE, file |-> file]
            ELSE IF saved.raised THEN [result |-> FALSE, file |-> file]
            ELSE [result |-> TRUE, file |-> saved.file]

\* A document a pricing URL can serve: the three providers, each with its
\* default model
FullDoc ==
    PyDict("openai" :> PyDict("gpt-5.2" :> Price(2000, 15000))
           @@ "google" :> PyDict("gemini-3-flash-preview" :> Price(100, 400))
           @@ "anthropic" :> PyDict("claude-sonnet-4-5-20250929" :> Price(3000, 15000)))

\* The documents served: FullDoc; the same with a version of its own; the
\* same with OpenAI listing only gpt-4o; two providers only; a JSON list
FetchedDocs ==
    {FullDoc,
     SetItem(FullDoc, "_metadata", PyDict([version |-> "2.0.0"])),
     SetItem(FullDoc, "openai", PyDict("gpt-4o" :> Price(2500, 10000))),
     PyDict("openai" :> FullDoc.items["openai"] @@ "google" :> FullDoc.items["google"]),
     [type |-> "list"]}

\* What the override file may hold when the program starts: nothing, text
\* that is not YAML, an empty file, a table without the marker, or the one
\* word _metadata, which safe_load gives as a str
PricingFiles ==
    {AbsentFile, GarbageFile, YamlDump(PyNone), YamlDump(FullDoc),
     YamlDump([type |-> "str", chars |-> <<"_", "m", "e", "t", "a", "d", "a", "t", "a">>])}

\* The model ids normalize_model_name can produce
CanonicalModels ==
    {OPENAI_MODELS[n] : n \in DOMAIN OPENAI_MODELS}
    \cup {GEMINI_MODELS[n] : n \in DOMAIN GEMINI_MODELS}
    \cup {CLAUDE_MODELS[n] : n \in DOMAIN CLAUDE_MODELS}

LoadPricing ==
    \E fault \in PricingFaults \ {"network", "parse"} :
      \E out \in {load_pricing(pricingFile, fault)} :
        /\ pricingFile' = out.file
        /\ pricingLast' = [op |-> "load_pricing", fault |-> fault, before |-> pricingFile,
                           raised |-> out.raised, result |-> out.result]
        /\ UNCHANGED <<cacheVars, apiVars, keyVars, concVars, fanout, runs, retry, loggers>>

GetModelPricing ==
    \E provider \in Providers \cup {"mistral"}, model \in CanonicalModels \cup {"gpt-9"},
       fault \in PricingFaults \ {"network", "parse"} :
      \E loaded \in {load_pricing(pricingFile, fault)} :
        \E out \in {get_model_pricing(loaded, provider, model)} :
          /\ pricingFile' = out.file
          /\ pricingLast' = [op |-> "get_model_pricing", fault |-> fault,
                             provider |-> provider, model |-> model,
                             pricing |-> loaded.result,
                             raised |-> out.raised, result |-> out.result]
          /\ UNCHANGED <<cacheVars, apiVars, keyVars, concVars, fanout, runs, retry, loggers>>

UpdatePricing ==
    \E fetched \in FetchedDocs, fault \in PricingFaults \ {"read"} :
      \E out \in {update_pricing_from_url("https://example.com/pricing.json", fetched,
                                              pricingFile, clock, fault)} :
        /\ pricingFile' = out.file
        /\ pricingLast' = [op |-> "update_pricing_from_url", fault |-> fault,
                           before |-> pricingFile, fetched |-> fetched, at |-> clock,
                           result |-> out.result]
        /\ UNCHANGED <<cacheVars, apiVars, keyVars, concVars, fanout, runs, retry, loggers>>

InitPricing ==
    /\ clock = 0
    /\ files = [k \in KeySpace |-> AbsentFile]
    /\ last = [op |-> "init"]
    /\ Idle({"providerCalls", "usageLog", "pair", "writers",
             "fanout", "runs", "retry", "pricingLast", "loggers"})
    /\ pricingFile \in PricingFiles

NextPricing == Tick \/ LoadPricing \/ GetModelPricing \/ UpdatePricing

SpecPricing == InitPricing /\ [][NextPricing]_vars

\* The call of the pricing store made last
Did(op) == DOMAIN pricingLast # {} /\ pricingLast.op = op

\* A document's entries other than its metadata
Entries(doc) == [k \in DOMAIN doc.items \ {"_metadata"} |-> doc.items[k]]

\* C18: update_pricing_from_url either returns success and the persisted
\* table is the fetched document stamped with fresh metadata, or returns
\* failure and leaves the persisted table as it was.
C18_UpdateAllOrNothing ==
    Did("update_pricing_from_url") =>
        IF pricingLast.result
        THEN /\ YamlParses(pricingFile)
             /\ pricingLast.fetched.type = "dict"
             /\ YamlLoad(pricingFile).type = "dict"
             /\ Entries(YamlLoad(pricingFile)) = Entries(pricingLast.fetched)
             /\ "_metadata" \in DOMAIN YamlLoad(pricingFile).items
             /\ YamlLoad(pricingFile).items["_metadata"].items["last_updated"]
                  = IsoFormat(pricingLast.at)
        ELSE pricingFile = pricingLast.before

\* C19: for every table load_pricing returns, get_model_pricing returns the
\* exact model's prices when present, otherwise those of the provider's
\* default model, and None only for a provider other than openai, google and
\* anthropic; every provider and canonical model of normalize_model_name
\* resolves to a price entry.
C19_PriceResolved ==
    (Did("get_model_pricing") /\ ~pricingLast.raised) =>
        LET table == Get(pricingLast.pricing, pricingLast.provider, PyDict(<<>>))
        IN /\ pricingLast.result = PyNone => pricingLast.provider \notin Providers
           /\ pricingLast.provider \in Providers =>
                pricingLast.result =
                    IF pricingLast.model \in DOMAIN table.items
                    THEN table.items[pricingLast.model]
                    ELSE table.items[default_model(pricingLast.provider)]

\* C20: load_pricing always returns a table: the content of the override
\* file, left unchanged, when the file exists, parses and carries the
\* _metadata marker; in every other case the embedded defaults, which it
\* writes to the override file.
C20_LoadReturnsTable ==
    Did("load_pricing") =>
        /\ ~pricingLast.raised
        /\ pricingLast.result.type = "dict"
        /\ IF /\ YamlParses(pricingLast.before)
              /\ YamlLoad(pricingLast.before).type = "dict"
              /\ "_metadata" \in DOMAIN YamlLoad(pricingLast.before).items
           THEN /\ pricingLast.result = YamlLoad(pricingLast.before)
                /\ pricingFile = pricingLast.before
           ELSE /\ pricingLast.result = DEFAULT_PRICING
                /\ pricingFile = YamlDump(DEFAULT_PRICING)

----------------------------------------------------------------------------
(* Cost estimation (claude_mm/costs.py) and model names (claude_mm/models.py) *)

\* Amounts of money are exact: a rate is in thousandths of a dollar per
\* million tokens, a discount in hundredths, and a cost in units of 1e-11
\* dollar.  The rounding of an amount to the nearest double is not modelled;
\* the truncation of a double to an int is (int_product).

\* Caching discounts by provider, in hundredths
CACHE_DISCOUNTS_Flat == [openai |-> 90, google |-> 90, anthropic |-> 90]

CACHE_DISCOUNTS == [openai |-> 90, google |-> 75, anthropic |-> 90]

CHARS_PER_TOKEN == 4

\* The largest token count followed in a call of estimate_cost
MaxTokens == 2

\* text is a str, given by its length
estimate_tokens(text) ==
    IF text.len = 0 THEN 0
    ELSE IF text.len \div CHARS_PER_TOKEN >= 1 THEN text.len \div CHARS_PER_TOKEN
    ELSE 1

\* max(0, min(cached_tokens, input_tokens))
clamp_NoFloor(cached_tokens, input_tokens) ==
    IF cached_tokens < input_tokens THEN cached_tokens ELSE input_tokens

clamp(cached_tokens, input_tokens) ==
    IF (IF cached_tokens < input_tokens THEN cached_tokens ELSE input_tokens) > 0
    THEN IF cached_tokens < input_tokens THEN cached_tokens ELSE input_tokens
    ELSE 0

\* input_cost + cached_cost + output_cost of estimate_cost, lines 68-78
total_cost_InputOnly(uncached_tokens, cached_tokens, output_tokens, pricing, provider) ==
    uncached_tokens * pricing.input * 100
    + cached_tokens * (pricing.input * (100 - CACHE_DISCOUNTS[provider]))

total_cost(uncached_tokens, cached_tokens, output_tokens, pricing, provider) ==
    uncached_tokens * pricing.input * 100
    + cached_tokens * (pricing.input * (100 - CACHE_DISCOUNTS[provider]))
    + output_tokens * pricing.output * 100

\* estimate_cost on the pricing file it finds: whether it raises and what,
\* the provider and the rates it resolved, the token counts it priced, the
\* cost it returns and the pricing file it leaves (get_model_pricing loads
\* the table, and load_pricing writes the defaults when it falls back on them)
estimate_cost(model, input_tokens, output_tokens, cached_tokens, file, fault) ==
    LET Priced(norm, got, priced, cached) ==
            [raised |-> ~priced,
             error |-> IF norm.raised THEN "ValueError: Unknown model"
                       ELSE IF got.raised THEN "raised by get_model_pricing"
                       ELSE IF ~priced THEN "ValueError: No pricing data available"
                       ELSE "none",
             provider |-> norm.provider,
             pricing |-> IF priced THEN got.result ELSE Price(0, 0),
             cached_tokens |-> IF priced THEN cached ELSE 0,
             uncached_tokens |-> IF priced THEN input_tokens - cached ELSE 0,
             result |-> IF priced
                        THEN total_cost(input_tokens - cached, cached, output_tokens,
                                        got.result, norm.provider)
                        ELSE 0,
             file |-> IF norm.raised THEN file ELSE got.file]
        Looked(norm) ==
            CHOOSE out \in
                {Priced(norm, got, ~norm.raised /\ ~got.raised /\ got.result # PyNone,
                        clamp(cached_tokens, input_tokens)) :
                    got \in {IF norm.raised THEN [raised |-> TRUE]
                             ELSE get_model_pricing(load_pricing(file, fault),
                                                    norm.provider, norm.model_id)}} : TRUE
    IN  CHOOSE out \in {Looked(norm) : norm \in {normalize_model_name(model)}} : TRUE

\* int(input_tokens * cached_ratio), for a ratio written in hundredths: the
\* product is the double nearest to input_tokens times the double nearest to
\* the ratio, and int truncates it.  Of the products followed here, 50 * 0.58
\* is the one whose double (28.999999999999996) lies below the exact product.
int_product(input_tokens, cached_ratio) ==
    IF <<input_tokens, cached_ratio>> = <<50, 58>>
    THEN (input_tokens * cached_ratio) \div 100 - 1
    ELSE (input_tokens * cached_ratio) \div 100

\* estimate_cost_from_text, with cached_ratio in hundredths; the formatted
\* cost of the breakdown is left out
estimate_cost_from_text(model, input_text, expected_output_tokens, cached_ratio, file, fault) ==
    IF ~(0 <= cached_ratio /\ cached_ratio <= 100)
    THEN [raised |-> TRUE, error |-> "ValueError: cached_ratio must be between 0.0 and 1.0",
          input_tokens |-> 0, output_tokens |-> 0, cached_tokens |-> 0,
          estimated_cost |-> 0, is_estimated |-> FALSE, file |-> file]
    ELSE LET input_tokens == estimate_tokens(input_text)
             cached_tokens == int_product(input_tokens, cached_ratio)
             cost == estimate_cost(model, input_tokens, expected_output_tokens,
                                   cached_tokens, file, fault)
         IN [raised |-> cost.raised, error |-> cost.error,
             input_tokens |-> IF cost.raised THEN 0 ELSE input_tokens,
             output_tokens |-> IF cost.raised THEN 0 ELSE expected_output_tokens,
             cached_tokens |-> IF cost.raised THEN 0 ELSE cached_tokens,
             estimated_cost |-> cost.result,
             is_estimated |-> ~cost.raised /\ model \in {"gpt-5.2-pro", "gemini-pro"},
             file |-> cost.file]

get_provider_for_model_ModelsOnly(model) ==
    IF model \in DOMAIN OPENAI_MODELS THEN PyStr("openai")
    ELSE IF model \in DOMAIN GEMINI_MODELS THEN PyStr("google")
    ELSE IF model \in DOMAIN CLAUDE_MODELS THEN PyStr("anthropic")
    ELSE PyNone

get_provider_for_model(model) ==
    IF model \in DOMAIN OPENAI_MODELS \/ model \in DOMAIN OPENAI_ALIASES
    THEN PyStr("openai")
    ELSE IF model \in DOMAIN GEMINI_MODELS \/ model \in DOMAIN GEMINI_ALIASES
         THEN PyStr("google")
    ELSE IF model \in DOMAIN CLAUDE_MODELS \/ model \in DOMAIN CLAUDE_ALIASES
         THEN PyStr("anthropic")
    ELSE PyNone

\* The names asked for: every key of a model table, every alias, and names
\* that are in no table
AskedNames ==
    DOMAIN OPENAI_MODELS \cup DOMAIN OPENAI_ALIASES \cup DOMAIN GEMINI_MODELS
    \cup DOMAIN GEMINI_ALIASES \cup DOMAIN CLAUDE_MODELS \cup DOMAIN CLAUDE_ALIASES
    \cup {"llama", "GPT", ""}

EstimateCost ==
    /\ last.op = "init"
    /\ \E model \in AskedNames, input_tokens \in (-1)..MaxTokens,
          output_tokens \in (-1)..MaxTokens, cached_tokens \in (-1)..(MaxTokens + 1),
          fault \in PricingFaults \ {"network", "parse"} :
         \E out \in {estimate_cost(model, input_tokens, output_tokens, cached_tokens,
                                   pricingFile, fault)} :
           /\ pricingFile' = out.file
           /\ last' = [op |-> "estimate_cost", model |-> model,
                       input_tokens |-> input_tokens, output_tokens |-> output_tokens,
                       cached_tokens |-> cached_tokens, fault |-> fault,
                       before |-> pricingFile, out |-> out]
           /\ UNCHANGED <<clock, files, apiVars, keyVars, concVars, fanout, runs, retry, pricingLast, loggers>>

EstimateCostFromText ==
    /\ last.op = "init"
    /\ \E model \in AskedNames, length \in {0, 3, 8, 200},
          expected_output_tokens \in {0, MaxTokens},
          cached_ratio \in {-10, 0, 50, 58, 100, 150},
          fault \in PricingFaults \ {"network", "parse"} :
         \E out \in {estimate_cost_from_text(model, [type |-> "str", len |-> length], expected_output_tokens,
                                             cached_ratio, pricingFile, fault)} :
           /\ pricingFile' = out.file
           /\ last' = [op |-> "estimate_cost_from_text", model |-> model,
                       input_text |-> [type |-> "str", len |-> length],
                       expected_output_tokens |-> expected_output_tokens,
                       cached_ratio |-> cached_ratio, fault |-> fault,
                       before |-> pricingFile, out |-> out]
           /\ UNCHANGED <<clock, files, apiVars, keyVars, concVars, fanout, runs, retry, pricingLast, loggers>>

NormalizeModelName ==
    /\ last.op = "init"
    /\ \E model \in AskedNames :
           /\ last' = [op |-> "normalize_model_name", model |-> model,
                       out |-> normalize_model_name(model),
                       provider |-> get_provider_for_model(model)]
           /\ UNCHANGED <<clock, files, apiVars, keyVars, concVars, extVars>>

\* A call finds the pricing file as the program can have left it: as at the
\* start of the pricing store, or written by load_pricing or by
\* update_pricing_from_url, wholly or in part.  One call is followed from
\* each content: a call leaves nothing behind but the file.
InitCost ==
    /\ clock = 0
    /\ files = [k \in KeySpace |-> AbsentFile]
    /\ last = [op |-> "init"]
    /\ Idle({"providerCalls", "usageLog", "pair", "writers",
             "fanout", "runs", "retry", "pricingLast", "loggers"})
    /\ pricingFile \in
         PricingFiles
         \cup {load_pricing(AbsentFile, f).file : f \in {"none", "dump"}}
         \cup {update_pricing_from_url("https://example.com/pricing.json", d,
                                       AbsentFile, 0, "none").file : d \in FetchedDocs}

NextCost == EstimateCost \/ EstimateCostFromText \/ NormalizeModelName

SpecCost == InitCost /\ [][NextCost]_vars

\* The call of the cost module made last, and whether it returned
Estimated(op) == last.op = op /\ ~last.out.raised

\* The discount the specification states for each provider, in hundredths
StatedDiscount(provider) ==
    CASE provider = "openai" -> 90
      [] provider = "google" -> 75
      [] provider = "anthropic" -> 90

\* (input - cached)/1e6 x input_rate + cached/1e6 x input_rate x (1 - discount)
\* + output/1e6 x output_rate, in units of 1e-11 dollar
StatedCost(input, output, cached, rate, provider) ==
    (input - cached) * rate.input * 100
    + cached * rate.input * (100 - StatedDiscount(provider))
    + output * rate.output * 100

\* C21: for a known model whose rates the pricing table resolves, and token
\* counts with 0 <= cached <= input and output >= 0, estimate_cost is the
\* uncached input at the input rate, plus the cached input at the input rate
\* less the provider's discount (0.90 openai, 0.75 google, 0.90 anthropic),
\* plus the output at the full output rate; 1000 input and 500 output tokens
\* at 1.75/14.00 give 0.00875.
C21_CostFormula ==
    /\ (/\ Estimated("estimate_cost")
        /\ 0 <= last.cached_tokens /\ last.cached_tokens <= last.input_tokens
        /\ last.output_tokens >= 0) =>
          last.out.result =
              StatedCost(last.input_tokens, last.output_tokens, last.cached_tokens,
                         last.out.pricing, last.out.provider)
    /\ last.op = "estimate_cost" =>
          LET example == estimate_cost("gpt-5.2", 1000, 500, 0, AbsentFile, "none")
          IN ~example.raised /\ example.pricing = Price(1750, 14000)
             /\ example.result = 875000000

\* A Gemini model priced with part of its input cached and some output
C21_Witness ==
    /\ Estimated("estimate_cost")
    /\ last.out.provider = "google"
    /\ last.cached_tokens = 1 /\ last.input_tokens = 2 /\ last.output_tokens = 1
    /\ last.out.result > 0

\* cached_tokens brought into [0, input_tokens]
Clamped(cached, input) ==
    IF cached < 0 THEN 0 ELSE IF cached > input THEN input ELSE cached

\* What C22 states of the call made last
ClampedOutcome ==
    /\ last.out = estimate_cost(last.model, last.input_tokens, last.output_tokens,
                                Clamped(last.cached_tokens, last.input_tokens),
                                last.before, last.fault)
    /\ ~last.out.raised =>
          /\ last.out.cached_tokens = Clamped(last.cached_tokens, last.input_tokens)
          /\ last.out.uncached_tokens >= 0
          /\ last.out.result >= 0

\* C22, as stated: for every input_tokens, output_tokens and cached_tokens,
\* estimate_cost gives what it gives for cached_tokens clamped into
\* [0, input_tokens], prices no negative uncached count and returns no
\* negative cost.
C22_ClampedAnyCounts == last.op = "estimate_cost" => ClampedOutcome

\* C22, amended: the same for input_tokens >= 0 and output_tokens >= 0.
C22_ClampedNonNegativeCounts ==
    (last.op = "estimate_cost" /\ last.input_tokens >= 0 /\ last.output_tokens >= 0)
        => ClampedOutcome

\* A call with more cached tokens than input tokens, and one with fewer than
\* none
C22_Witness ==
    /\ Estimated("estimate_cost")
    /\ last.input_tokens = 1 /\ last.output_tokens = 1
    /\ last.cached_tokens = MaxTokens + 1
    /\ last.out.cached_tokens = 1 /\ last.out.uncached_tokens = 0

\* Whether every model with higher input and output rates than the model of
\* the call made last costs strictly more for the same token counts
DearerCostsMore ==
    \A A \in AskedNames :
        LET a == estimate_cost(A, last.input_tokens, last.output_tokens, 0,
                               last.before, last.fault)
        IN (/\ ~a.raised
            /\ a.pricing.input > last.out.pricing.input
            /\ a.pricing.output > last.out.pricing.output)
               => a.result > last.out.result

\* C23, as stated: for any fixed input and output token counts (none of them
\* cached), a model with higher input and output rates costs strictly more.
C23_MonotoneAnyCounts ==
    (Estimated("estimate_cost") /\ last.cached_tokens = 0) => DearerCostsMore

\* C23, amended: the same for token counts that are not negative and not
\* both zero.
C23_MonotonePositiveCounts ==
    (/\ Estimated("estimate_cost") /\ last.cached_tokens = 0
     /\ last.input_tokens >= 0 /\ last.output_tokens >= 0
     /\ last.input_tokens + last.output_tokens > 0) => DearerCostsMore

\* The cheapest model priced on output tokens alone, with dearer models to
\* compare it with
C23_Witness ==
    /\ Estimated("estimate_cost") /\ last.cached_tokens = 0
    /\ last.input_tokens = 0 /\ last.output_tokens = 1
    /\ last.model = "gemini"
    /\ \E A \in AskedNames :
         LET a == estimate_cost(A, 0, 1, 0, last.before, last.fault)
         IN ~a.raised /\ a.pricing.input > last.out.pricing.input
            /\ a.pricing.output > last.out.pricing.output

\* C24: estimate_cost_from_text fails on its own validation exactly when
\* cached_ratio is outside [0, 1], before any lookup; otherwise it fails as
\* estimate_cost fails, or returns input_tokens = estimate_tokens(text),
\* cached_tokens = floor(input_tokens x cached_ratio) within [0, input_tokens],
\* and the cost estimate_cost gives for those counts.
C24_FromText ==
    last.op = "estimate_cost_from_text" =>
        LET n == estimate_tokens(last.input_text)
            floor == (n * last.cached_ratio) \div 100
            cost == estimate_cost(last.model, n, last.expected_output_tokens, floor,
                                  last.before, last.fault)
        IN IF last.cached_ratio < 0 \/ last.cached_ratio > 100
           THEN /\ last.out.raised
                /\ last.out.error = "ValueError: cached_ratio must be between 0.0 and 1.0"
                /\ pricingFile = last.before
           ELSE /\ last.out.raised = cost.raised
                /\ last.out.error = cost.error
                /\ ~last.out.raised =>
                      /\ last.out.input_tokens = n
                      /\ last.out.cached_tokens = floor
                      /\ 0 <= last.out.cached_tokens
                      /\ last.out.cached_tokens <= last.out.input_tokens
                      /\ last.out.estimated_cost = cost.result

\* C25: normalize_model_name resolves every key of a model table to its
\* provider and its API name and every alias to a canonical model of the
\* alias's own provider; every name is in at most one provider's tables;
\* every other name is rejected; get_provider_for_model gives the provider
\* normalize_model_name gives, and None exactly when the name is rejected.
C25_NamesResolve ==
    last.op = "normalize_model_name" =>
        LET name == last.model
            tables == [openai |-> <<OPENAI_MODELS, OPENAI_ALIASES>>,
                       google |-> <<GEMINI_MODELS, GEMINI_ALIASES>>,
                       anthropic |-> <<CLAUDE_MODELS, CLAUDE_ALIASES>>]
            owners == {p \in DOMAIN tables :
                          name \in DOMAIN tables[p][1] \cup DOMAIN tables[p][2]}
        IN /\ Cardinality(owners) <= 1
           /\ last.out = normalize_model_name(name)
           /\ \A p \in owners :
                /\ ~last.out.raised
                /\ last.out.provider = p
                /\ name \in DOMAIN tables[p][1] => last.out.model_id = tables[p][1][name]
                /\ \E key \in DOMAIN tables[p][1] : last.out.model_id = tables[p][1][key]
           /\ owners = {} => last.out.raised
           /\ last.provider = IF last.out.raised THEN PyNone ELSE PyStr(last.out.provider)

\* An alias resolved to a canonical model of its provider
C25_Witness ==
    /\ last.op = "normalize_model_name"
    /\ last.model = "gpt-instant"
    /\ last.out = Normalized("openai", "gpt-5.2-chat-latest")
    /\ last.provider = PyStr("openai")

----------------------------------------------------------------------------
(* log_api_call called by concurrent workers (claude_mm/cost_tracker.py) *)

\* Here the usage log is followed at the grain of what each call puts in the
\* file: one item per write, which is a whole line (a record and its newline)
\* or, when the write fails midway, the beginning of one.

\* Lines 261-270: get_cost_log_path creates the directory, outside the try,
\* and the entry is built with the time of the call
log_api_call_entry(w, model, fault) ==
    /\ loggers[w].pc = "idle"
    /\ loggers' = [loggers EXCEPT ![w] =
                     IF fault = "mkdir"
                     THEN [pc |-> "done", raised |-> TRUE, written |-> FALSE]
                     ELSE [pc |-> "open", timestamp |-> IsoFormat(clock),
                           entry |-> UsageRecord(model, ProviderResponse(PyStr("r"), model))]]
    /\ UNCHANGED <<cacheVars, apiVars, keyVars, concVars,
                   fanout, runs, retry, pricingFile, pricingLast>>

\* Lines 272-277: open(log_path, "a"), the write of the line, which reaches
\* the file in one piece when the file is closed, and the except that
\* swallows a failure of either
log_api_call_write(w, fault) ==
    /\ loggers[w].pc = "open"
    /\ usageLog' =
         IF fault = "open" THEN usageLog
         ELSE Append(usageLog, [by |-> w, whole |-> fault = "none",
                                timestamp |-> loggers[w].timestamp,
                                entry |-> loggers[w].entry])
    /\ loggers' = [loggers EXCEPT ![w] =
                     [pc |-> "done", raised |-> FALSE, written |-> fault = "none"]]
    /\ UNCHANGED <<cacheVars, providerCalls, keyVars, concVars,
                   fanout, runs, retry, pricingFile, pricingLast>>

\* One call per worker of a fan-out, on an empty log
InitLog ==
    /\ clock = 0
    /\ files = [k \in KeySpace |-> AbsentFile]
    /\ last = [op |-> "init"]
    /\ Idle({"providerCalls", "usageLog", "pair", "writers",
             "fanout", "runs", "retry", "pricingFile", "pricingLast"})
    /\ loggers = [w \in 1..NumModels |-> [pc |-> "idle"]]

NextLog ==
    \/ Tick
    \/ \E w \in 1..NumModels, model \in {"gpt-5.2", "gemini-3-flash-preview"},
          fault \in {"none", "mkdir"} :
           log_api_call_entry(w, model, fault)
    \/ \E w \in 1..NumModels, fault \in {"none", "open", "write"} :
           log_api_call_write(w, fault)

SpecLog == InitLog /\ [][NextLog]_vars

\* The lines of the log that hold the record of call w and nothing else: a
\* whole item that does not follow the beginning of a line
RecordsOf(w) ==
    {i \in DOMAIN usageLog :
        /\ usageLog[i].by = w
        /\ usageLog[i].whole
        /\ i > 1 => usageLog[i - 1].whole}

\* C26: after any calls of log_api_call, concurrent ones included, the log
\* holds exactly one complete record for each call whose write did not fail
\* and none for the others, and no call raises to its caller.
C26_LogAppendOnly ==
    \A w \in DOMAIN loggers :
        loggers[w].pc = "done" =>
            /\ ~loggers[w].raised
            /\ Cardinality(RecordsOf(w)) = IF loggers[w].written THEN 1 ELSE 0

----------------------------------------------------------------------------
(* The cache under concurrent calls, failed stores and repeated requests *)

\* C27: a lookup that runs concurrently with stores of the same fingerprint
\* removes an entry only if the entry's own timestamp is older than a TTL
\* the lookup can have applied; it never removes an entry stored within it.
C27_RemovesOnlyExpired ==
    [][\A r \in Readers :
         (readers[r].pc = "unlink" /\ readers'[r].pc = "idle") =>
            LET entry == files[readers[r].cache_key]
            IN IsEntry(entry) =>
                 \E ttl \in 0..MaxTtl : Expired(clock, StoredAt(entry), ttl)]_vars

\* C28: a cache_response call that fails after its temporary file was
\* created leaves no temporary file behind.
C28_TempFileCleaned ==
    last.op = "cache_response" => last.effect # "leaked"

\* C29: when a call of _review_single has completed a provider call and
\* stored its text, the same request made next within the TTL is served from
\* the cache, with that text and without a provider call.
C29_RepeatServedFromCache ==
    [][(/\ last.op = "_review_single" /\ last'.op = "_review_single"
        /\ ~last.raised /\ ~last.result.cached) =>
       \A p \in Prompts, m \in ModelNames, sp \in ReviewSystemPrompts,
          ttl \in 0..MaxTtl, text \in Responses :
        LET entry == files[get_cache_key(m, p, sp)]
        IN
        ( /\ IsEntry(entry)
          /\ JsonLoad(entry)["model"] = m
          /\ JsonLoad(entry)["response"] = last.result.text
          /\ ~Expired(clock, StoredAt(entry), ttl)
          /\ _review_single(p, m, sp, TRUE, ttl, text, NoFault) )
        => /\ providerCalls' = providerCalls
           /\ last'.result.cached
           /\ last'.result.text = last.result.text]_vars

\* C30: review and review_async look the cache up with the cache_ttl their
\* caller supplies, whatever its value, 0 included.
C30_SuppliedTtlUsed ==
    [][last'.op \in {"review", "review_async"} =>
       \A p \in Prompts, l \in ModelLists, f \in {"general", "security"},
          ttl \in 0..MaxTtl :
        (review(p, l, f, TRUE, ttl) \/ review_async(p, l, f, TRUE, ttl))
        => fanout'.cache_ttl = ttl]_vars

====
